---- MODULE Spec2Model ----
\* Verification model of the training-notation parser:
\*   parser/model.py   Weight, Set_, Exercise (validation, flatten, total_volume, ordering)
\*   parser/parser.py  Formatter (the parse-tree visitor) and Parser.parse_sessions
EXTENDS Integers, Sequences, FiniteSets, TLC

VARIABLES
    ex,       \* the live Exercise object of the value-model scenario, or None
    ret,      \* the last call: [op, args, raised, value]
    input,    \* Formatter scenario: the parse tree being visited, as its sequence of visitor calls
    pc,       \* Formatter scenario: index of the next visitor call, 0 before the parse starts
    current,  \* Formatter.current
    result,   \* Formatter.result
    error     \* Formatter scenario: the exception that ended the parse, or NoError

vars == <<ex, ret, input, pc, current, result, error>>

-----------------------------------------------------------------------------
\* Bounds of the model

\* longest set sequence given to the Exercise constructor / reached by appends
MaxSets == 3
\* longest set sequence of the two Exercises handed to the comparison operators
MaxCmpLen == 2

-----------------------------------------------------------------------------
\* Python values

None == [cls |-> "NoneType"]
NoError == "none"

Min(a, b) == IF a < b THEN a ELSE b

\* code points of the strings the model uses (str comparison is by code point)
CodePoints ==
    ("" :> <<>>) @@ ("a" :> <<97>>) @@ ("ab" :> <<97, 98>>) @@ ("b" :> <<98>>)
    @@ ("kg" :> <<107, 103>>) @@ ("lb" :> <<108, 98>>)

\* first index at which two sequences differ, 0 when one is a prefix of the other
first_mismatch(x, y) ==
    LET D == {i \in 1..Min(Len(x), Len(y)) : x[i] # y[i]}
    IN  IF D = {} THEN 0 ELSE CHOOSE i \in D : \A j \in D : i <= j

\* str.__lt__
str_lt(a, b) ==
    LET x == CodePoints[a]
        y == CodePoints[b]
        i == first_mismatch(x, y)
    IN  IF i = 0 THEN Len(x) < Len(y) ELSE x[i] < y[i]

-----------------------------------------------------------------------------
\* parser/model.py: Weight and Set_

validate_weight_accepts_negative(amount, unit) ==
    IF unit = "" THEN "ValueError" ELSE NoError

validate_weight_accepts_empty_unit(amount, unit) ==
    IF amount < 0 THEN "ValueError" ELSE NoError

validate_weight(amount, unit) ==
    IF amount < 0 THEN "ValueError"
    ELSE IF unit = "" THEN "ValueError"
    ELSE NoError

\* amount is a float; the model keeps one decimal and counts in tenths (705 is 70.5)
WeightValue(amount, unit) == [cls |-> "Weight", amount |-> amount, unit |-> unit]

\* Weight(amount, unit): the dataclass __init__ followed by __post_init__
Weight(amount, unit) ==
    LET raised == validate_weight(amount, unit)
    IN  [raised |-> raised,
         value |-> IF raised = NoError THEN WeightValue(amount, unit) ELSE None]

validate_set_accepts_zero(repetitions, weight) ==
    IF repetitions < 0 THEN "ValueError"
    ELSE IF weight.cls # "Weight" THEN "TypeError"
    ELSE validate_weight(weight.amount, weight.unit)

validate_set(repetitions, weight) ==
    IF repetitions <= 0 THEN "ValueError"
    ELSE IF weight.cls # "Weight" THEN "TypeError"
    ELSE validate_weight(weight.amount, weight.unit)

SetValue(repetitions, weight) ==
    [cls |-> "Set_", repetitions |-> repetitions, weight |-> weight]

\* Set_(repetitions, weight): the dataclass __init__ followed by __post_init__
Set_(repetitions, weight) ==
    LET raised == validate_set(repetitions, weight)
    IN  [raised |-> raised,
         value |-> IF raised = NoError THEN SetValue(repetitions, weight) ELSE None]

KILOGRAM == "kg"

\* a plain dict {'amount': .., 'unit': ..} and {'repetitions': .., 'weight': ..}
DictWeight(amount, unit) == [cls |-> "dict", amount |-> amount, unit |-> unit]
DictSet(repetitions, weight) ==
    [cls |-> "dict", repetitions |-> repetitions, weight |-> weight]

\* constructor arguments tried
Amounts == {-1, 0, 1}
UnitArgs == {"", "kg", "lb"}
RepetitionArgs == {-1, 0, 1, 2}

\* the Weight and Set_ instances that exist: those a constructor call returned
WeightObjs ==
    {Weight(a, u).value : <<a, u>> \in {p \in Amounts \X UnitArgs : Weight(p[1], p[2]).raised = NoError}}
NonWeightObjs == {DictWeight(a, u) : a \in {0, 1}, u \in {"", "kg"}} \cup {None}
SetObjs ==
    {Set_(r, w).value : <<r, w>> \in {p \in RepetitionArgs \X WeightObjs : Set_(p[1], p[2]).raised = NoError}}

-----------------------------------------------------------------------------
\* parser/model.py: Exercise

SeqsUpTo(S, n) == UNION {[1..k -> S] : k \in 0..n}

UnitsOf(sets_) == {sets_[i].weight.unit : i \in 1..Len(sets_)}

post_init_allows_two_units(sets_) ==
    IF \E i \in 1..Len(sets_) : sets_[i].cls # "Set_" THEN "AttributeError"
    ELSE IF Cardinality(UnitsOf(sets_)) > 2 THEN "ValueError"
    ELSE NoError

\* Exercise.__post_init__: s.weight.unit is an attribute access, which a dict does not have
Exercise_post_init(sets_) ==
    IF \E i \in 1..Len(sets_) : sets_[i].cls # "Set_" THEN "AttributeError"
    ELSE IF Cardinality(UnitsOf(sets_)) > 1 THEN "ValueError"
    ELSE NoError

ExerciseValue(name, sets_) == [cls |-> "Exercise", name |-> name, sets_ |-> sets_]

\* Exercise(name, sets_): the dataclass __init__ followed by __post_init__
Exercise(name, sets_) ==
    LET raised == Exercise_post_init(sets_)
    IN  [raised |-> raised,
         value |-> IF raised = NoError THEN ExerciseValue(name, sets_) ELSE None]

flatten_key_weight_only(x) == <<x.weight>>

\* the groupby key of flatten: lambda x: (x.weight, x.repetitions)
flatten_key(x) == <<x.weight, x.repetitions>>

\* itertools.groupby: one pass, a new group whenever the key changes
RECURSIVE groupby(_, _, _)
groupby(seq, i, groups) ==
    IF i > Len(seq) THEN groups
    ELSE IF groups # <<>> /\ flatten_key(groups[Len(groups)][1]) = flatten_key(seq[i])
         THEN groupby(seq, i + 1, [groups EXCEPT ![Len(groups)] = Append(@, seq[i])])
         ELSE groupby(seq, i + 1, Append(groups, <<seq[i]>>))

flatten_keeps_all_sets(self) ==
    LET groups == groupby(self.sets_, 1, <<>>)
    IN  [g \in 1..Len(groups) |-> self]

\* Exercise.flatten: a deep copy of self per group, its sets_ replaced by the group
flatten(self) ==
    LET groups == groupby(self.sets_, 1, <<>>)
    IN  [g \in 1..Len(groups) |-> [self EXCEPT !.sets_ = groups[g]]]

RECURSIVE total_volume_loop(_, _, _)
total_volume_loop(sets_, i, total) ==
    IF i > Len(sets_) THEN total
    ELSE total_volume_loop(sets_, i + 1,
                           total + sets_[i].repetitions * sets_[i].weight.amount)

total_volume_adds(self) ==
    LET S == self.sets_
    IN  IF S = <<>> THEN 0 ELSE S[1].repetitions + S[1].weight.amount
                                + total_volume_loop(S, 2, 0)

\* Exercise.total_volume
total_volume(self) == total_volume_loop(self.sets_, 1, 0)

validate_skips_units(self) ==
    IF self.name = "" THEN "ValueError"
    ELSE IF \E i \in 1..Len(self.sets_) :
                validate_set(self.sets_[i].repetitions, self.sets_[i].weight) # NoError
         THEN "ValueError"
    ELSE NoError

\* Exercise.validate
Exercise_validate(self) ==
    IF self.name = "" THEN "ValueError"
    ELSE IF \E i \in 1..Len(self.sets_) : self.sets_[i].cls # "Set_" THEN "AttributeError"
    ELSE IF Cardinality(UnitsOf(self.sets_)) > 1 THEN "ValueError"
    ELSE IF \E i \in 1..Len(self.sets_) :
                validate_set(self.sets_[i].repetitions, self.sets_[i].weight) # NoError
         THEN "ValueError"
    ELSE NoError

-----------------------------------------------------------------------------
\* parser/model.py: equality and ordering
\* (dataclass eq/order compare the field tuples; a tuple comparison looks for the
\* first pair of differing items and compares that pair, else the lengths)

Weight_eq(a, b) == a.amount = b.amount /\ a.unit = b.unit

Weight_lt_unit_first(a, b) ==
    IF a.unit # b.unit THEN str_lt(a.unit, b.unit)
    ELSE IF a.amount # b.amount THEN a.amount < b.amount
    ELSE FALSE

\* Weight.__lt__ (order=True): (amount, unit) < (other.amount, other.unit)
Weight_lt(a, b) ==
    IF a.amount # b.amount THEN a.amount < b.amount
    ELSE IF a.unit # b.unit THEN str_lt(a.unit, b.unit)
    ELSE FALSE

Set_eq(a, b) == a.repetitions = b.repetitions /\ Weight_eq(a.weight, b.weight)

Set_lt_weight_first(a, b) ==
    IF ~Weight_eq(a.weight, b.weight) THEN Weight_lt(a.weight, b.weight)
    ELSE IF a.repetitions # b.repetitions THEN a.repetitions < b.repetitions
    ELSE FALSE

\* Set_.__lt__ (order=True): (repetitions, weight) < (other.repetitions, other.weight)
Set_lt(a, b) ==
    IF a.repetitions # b.repetitions THEN a.repetitions < b.repetitions
    ELSE IF ~Weight_eq(a.weight, b.weight) THEN Weight_lt(a.weight, b.weight)
    ELSE FALSE

\* list.__eq__ / tuple.__eq__ over Set_ items
sets_eq(x, y) == Len(x) = Len(y) /\ \A i \in 1..Len(x) : Set_eq(x[i], y[i])

sets_first_mismatch(x, y) ==
    LET D == {i \in 1..Min(Len(x), Len(y)) : ~Set_eq(x[i], y[i])}
    IN  IF D = {} THEN 0 ELSE CHOOSE i \in D : \A j \in D : i <= j

\* tuple.__lt__ over Set_ items
sets_lt(x, y) ==
    LET i == sets_first_mismatch(x, y)
    IN  IF i = 0 THEN Len(x) < Len(y) ELSE Set_lt(x[i], y[i])

\* Exercise.__eq__ (eq=True): (name, sets_) == (other.name, other.sets_)
Exercise_eq(self, other) == self.name = other.name /\ sets_eq(self.sets_, other.sets_)

Exercise_lt_ignores_length(self, other) ==
    IF self.name # other.name THEN str_lt(self.name, other.name)
    ELSE LET i == sets_first_mismatch(self.sets_, other.sets_)
         IN  i # 0 /\ Set_lt(self.sets_[i], other.sets_[i])

\* Exercise.__lt__: (self.name, tuple(self.sets_)) < (other.name, tuple(other.sets_))
Exercise_lt(self, other) ==
    IF self.name # other.name THEN str_lt(self.name, other.name)
    ELSE IF ~sets_eq(self.sets_, other.sets_) THEN sets_lt(self.sets_, other.sets_)
    ELSE FALSE

\* Exercise.__gt__
Exercise_gt(self, other) ==
    IF self.name # other.name THEN str_lt(other.name, self.name)
    ELSE IF ~sets_eq(self.sets_, other.sets_) THEN sets_lt(other.sets_, self.sets_)
    ELSE FALSE

\* Exercise.__le__
Exercise_le(self, other) ==
    IF self.name # other.name THEN str_lt(self.name, other.name)
    ELSE IF ~sets_eq(self.sets_, other.sets_) THEN sets_lt(self.sets_, other.sets_)
    ELSE TRUE

\* Exercise.__ge__
Exercise_ge(self, other) ==
    IF self.name # other.name THEN str_lt(other.name, self.name)
    ELSE IF ~sets_eq(self.sets_, other.sets_) THEN sets_lt(other.sets_, self.sets_)
    ELSE TRUE

-----------------------------------------------------------------------------
\* Scenario 1 (Spec): the life of one Exercise object

ExerciseNames == {"", "a", "b"}

Call(op, args, raised, value) ==
    [op |-> op, args |-> args, raised |-> raised, value |-> value]

FormatterIdle ==
    /\ input = <<>>
    /\ pc = 0
    /\ current = None
    /\ result = <<>>
    /\ error = NoError

Init ==
    /\ ex = None
    /\ ret = Call("start", None, NoError, None)
    /\ FormatterIdle

\* ex = Exercise(name, sets_), the first call of the scenario
NewExercise ==
    /\ ret.op = "start"
    /\ \E name \in ExerciseNames, sets_ \in SeqsUpTo(SetObjs, MaxSets) :
          LET made == Exercise(name, sets_)
          IN  /\ ex' = made.value
              /\ ret' = Call("Exercise", [name |-> name, sets_ |-> sets_], made.raised, None)
    /\ UNCHANGED <<input, pc, current, result, error>>

\* ex.sets_.append(s): sets_ is a plain list of a non-frozen dataclass
AppendSet(s) ==
    /\ ex # None
    /\ Len(ex.sets_) < MaxSets
    /\ ex' = [ex EXCEPT !.sets_ = Append(@, s)]
    /\ ret' = Call("append", s, NoError, None)
    /\ UNCHANGED <<input, pc, current, result, error>>

\* ex.validate()
CallValidate ==
    /\ ex # None
    /\ ret' = Call("validate", None, Exercise_validate(ex), None)
    /\ UNCHANGED <<ex, input, pc, current, result, error>>

\* ex.flatten()
CallFlatten ==
    /\ ex # None
    /\ ret' = Call("flatten", None, NoError, flatten(ex))
    /\ UNCHANGED <<ex, input, pc, current, result, error>>

\* ex.flatten()[g].flatten()
CallFlattenOfGroup(g) ==
    /\ ex # None
    /\ g \in 1..Len(flatten(ex))
    /\ ret' = Call("reflatten", flatten(ex)[g], NoError, flatten(flatten(ex)[g]))
    /\ UNCHANGED <<ex, input, pc, current, result, error>>

\* ex.total_volume(); args keeps the Exercise as it was before the call
CallTotalVolume ==
    /\ ex # None
    /\ ret' = Call("total_volume", ex, NoError, total_volume(ex))
    /\ UNCHANGED <<ex, input, pc, current, result, error>>

Next ==
    \/ NewExercise
    \/ \E s \in SetObjs : AppendSet(s)
    \/ CallValidate
    \/ CallFlatten
    \/ \E g \in 1..MaxSets : CallFlattenOfGroup(g)
    \/ CallTotalVolume

Spec == Init /\ [][Next]_vars

-----------------------------------------------------------------------------
\* Scenario 2 (SpecValues): one constructor call or one comparison on bounded inputs

CmpNames == {"a", "ab", "b"}

\* the Exercises that exist: those the constructor returned
CmpExercises ==
    {ExerciseValue(n, s) : <<n, s>> \in
        {p \in CmpNames \X SeqsUpTo(SetObjs, MaxCmpLen) : Exercise(p[1], p[2]).raised = NoError}}

\* Weight(amount, unit)
NewWeight ==
    /\ ret.op = "start"
    /\ \E amount \in Amounts, unit \in UnitArgs :
          LET made == Weight(amount, unit)
          IN  ret' = Call("Weight", [amount |-> amount, unit |-> unit],
                          made.raised, made.value)
    /\ UNCHANGED <<ex, input, pc, current, result, error>>

\* Set_(repetitions, weight)
NewSet ==
    /\ ret.op = "start"
    /\ \E repetitions \in RepetitionArgs, weight \in WeightObjs \cup NonWeightObjs :
          LET made == Set_(repetitions, weight)
          IN  ret' = Call("Set_", [repetitions |-> repetitions, weight |-> weight],
                          made.raised, made.value)
    /\ UNCHANGED <<ex, input, pc, current, result, error>>

\* a < b, a <= b, a > b, a >= b, a == b
Compare ==
    /\ ret.op = "start"
    /\ \E a \in CmpExercises, b \in CmpExercises :
          ret' = Call("compare", [a |-> a, b |-> b], NoError,
                      [lt |-> Exercise_lt(a, b), le |-> Exercise_le(a, b),
                       gt |-> Exercise_gt(a, b), ge |-> Exercise_ge(a, b),
                       eq |-> Exercise_eq(a, b)])
    /\ UNCHANGED <<ex, input, pc, current, result, error>>

NextValues ==
    \/ NewWeight
    \/ NewSet
    \/ Compare

SpecValues == Init /\ [][NextValues]_vars

-----------------------------------------------------------------------------
\* Properties of the value model

IsValidWeight(w) == w.cls = "Weight" /\ w.amount >= 0 /\ w.unit # ""
IsValidSet(s) == s.cls = "Set_" /\ s.repetitions > 0 /\ IsValidWeight(s.weight)
SingleUnit(sets_) == \A i, j \in 1..Len(sets_) : sets_[i].weight.unit = sets_[j].weight.unit

\* C1: Weight(amount, unit) fails exactly when amount < 0 or unit is empty; Set_(repetitions,
\* weight) fails whenever repetitions <= 0 and, given a Weight, only then; a failed
\* construction yields no value, so every Weight or Set_ a constructor returns is valid.
C1_ConstructorsValidate ==
    /\ ret.op = "Weight" =>
          /\ (ret.raised # NoError) <=> (ret.args.amount < 0 \/ ret.args.unit = "")
          /\ ret.raised # NoError => ret.value = None
          /\ ret.raised = NoError =>
                /\ IsValidWeight(ret.value)
                /\ ret.value.amount = ret.args.amount
                /\ ret.value.unit = ret.args.unit
    /\ ret.op = "Set_" =>
          /\ ret.args.repetitions <= 0 => ret.raised # NoError
          /\ ret.args.weight.cls = "Weight" =>
                ((ret.raised # NoError) <=> (ret.args.repetitions <= 0))
          /\ ret.raised # NoError => ret.value = None
          /\ ret.raised = NoError =>
                /\ IsValidSet(ret.value)
                /\ ret.value.repetitions = ret.args.repetitions
                /\ ret.value.weight = ret.args.weight

C1_Witness ==
    /\ ret.op = "Weight"
    /\ ret.args.amount < 0
    /\ ret.args.unit = "kg"
    /\ ret.raised = "ValueError"

\* C2: Exercise(name, sets_) fails when the sets hold two or more distinct weight units and
\* succeeds, with that name and those sets, when they share one unit or there are none.
C2_ExerciseRejectsMixedUnits ==
    ret.op = "Exercise" =>
        /\ (ret.raised # NoError) <=>
              (\E i, j \in 1..Len(ret.args.sets_) :
                  ret.args.sets_[i].weight.unit # ret.args.sets_[j].weight.unit)
        /\ ret.raised # NoError => ex = None
        /\ ret.raised = NoError =>
              /\ ex # None
              /\ ex.name = ret.args.name
              /\ ex.sets_ = ret.args.sets_

C2_Witness ==
    /\ ret.op = "Exercise"
    /\ Len(ret.args.sets_) = 2
    /\ ret.args.sets_[1].weight.unit = "kg"
    /\ ret.args.sets_[2].weight.unit = "lb"
    /\ ret.raised = "ValueError"
    /\ ex = None

RECURSIVE ConcatSets(_)
ConcatSets(exercises) ==
    IF exercises = <<>> THEN <<>>
    ELSE Head(exercises).sets_ \o ConcatSets(Tail(exercises))

SameKind(s, t) == s.weight = t.weight /\ s.repetitions = t.repetitions

\* C4: flatten returns the maximal consecutive runs of identical (weight, repetitions): each
\* group is non-empty, homogeneous and named like the Exercise, adjacent groups differ, and
\* the groups' sets concatenated in order are the original sets.
C4_FlattenIsRunLengthGrouping ==
    ret.op = "flatten" =>
        LET F == ret.value
        IN  /\ \A g \in 1..Len(F) :
                  /\ F[g].sets_ # <<>>
                  /\ F[g].name = ex.name
                  /\ \A i, j \in 1..Len(F[g].sets_) : SameKind(F[g].sets_[i], F[g].sets_[j])
            /\ \A g \in 1..(Len(F) - 1) :
                  ~SameKind(F[g].sets_[Len(F[g].sets_)], F[g + 1].sets_[1])
            /\ ConcatSets(F) = ex.sets_

\* equal sets separated by a differing one end up in separate groups
C4_Witness ==
    /\ ret.op = "flatten"
    /\ Len(ex.sets_) = 3
    /\ ex.sets_[1] = ex.sets_[3]
    /\ ex.sets_[1] # ex.sets_[2]
    /\ Len(ret.value) = 3

\* C5: flattening any group of ex.flatten() returns the one-element list holding that group.
C5_FlattenIdempotentOnGroups ==
    ret.op = "reflatten" => ret.value = <<ret.args>>

C5_Witness ==
    /\ ret.op = "reflatten"
    /\ Len(flatten(ex)) >= 2
    /\ Len(ret.args.sets_) >= 2
    /\ ret.value = <<ret.args>>

RECURSIVE SumVolume(_)
SumVolume(sets_) ==
    IF sets_ = <<>> THEN 0
    ELSE Head(sets_).repetitions * Head(sets_).weight.amount + SumVolume(Tail(sets_))

\* C6: total_volume returns the sum over the sets of repetitions * weight.amount (0 without
\* sets) and leaves the Exercise as it was.
C6_TotalVolumeIsSum ==
    ret.op = "total_volume" =>
        /\ ex = ret.args
        /\ ret.value = SumVolume(ret.args.sets_)

C6_Witness ==
    /\ ret.op = "total_volume"
    /\ Len(ex.sets_) >= 2
    /\ ex.sets_[1].repetitions = 2
    /\ ret.value >= 3

\* lexicographic order, stated by its definition
LexLessInts(x, y) ==
    \E k \in 0..Min(Len(x), Len(y)) :
        /\ \A i \in 1..k : x[i] = y[i]
        /\ \/ (k = Len(x) /\ k < Len(y))
           \/ (k < Len(x) /\ k < Len(y) /\ x[k + 1] < y[k + 1])

StrLess(a, b) == LexLessInts(CodePoints[a], CodePoints[b])

WeightLess(v, w) ==
    v.amount < w.amount \/ (v.amount = w.amount /\ StrLess(v.unit, w.unit))

SetLess(s, t) ==
    s.repetitions < t.repetitions
    \/ (s.repetitions = t.repetitions /\ WeightLess(s.weight, t.weight))

LexLessSets(x, y) ==
    \E k \in 0..Min(Len(x), Len(y)) :
        /\ \A i \in 1..k : x[i] = y[i]
        /\ \/ (k = Len(x) /\ k < Len(y))
           \/ (k < Len(x) /\ k < Len(y) /\ SetLess(x[k + 1], y[k + 1]))

ExerciseLess(a, b) ==
    StrLess(a.name, b.name) \/ (a.name = b.name /\ LexLessSets(a.sets_, b.sets_))

\* C7: exactly one of a < b, a == b, a > b holds; a == b iff name and sets are equal; a < b
\* is the lexicographic order on (name, sets), Set_ by (repetitions, weight), Weight by
\* (amount, unit); <= and >= are the reflexive closures.
C7_ExerciseTotalOrder ==
    ret.op = "compare" =>
        LET a == ret.args.a
            b == ret.args.b
            v == ret.value
        IN  /\ Cardinality({r \in {"lt", "eq", "gt"} : v[r]}) = 1
            /\ v.eq <=> (a.name = b.name /\ a.sets_ = b.sets_)
            /\ v.lt <=> ExerciseLess(a, b)
            /\ v.gt <=> ExerciseLess(b, a)
            /\ v.le <=> (v.lt \/ v.eq)
            /\ v.ge <=> (v.gt \/ v.eq)

\* same name, same first set: decided by the second set, repetitions before weight
C7_Witness ==
    /\ ret.op = "compare"
    /\ ret.args.a.name = ret.args.b.name
    /\ Len(ret.args.a.sets_) = 2
    /\ Len(ret.args.b.sets_) = 2
    /\ ret.args.a.sets_[1] = ret.args.b.sets_[1]
    /\ ret.args.a.sets_[2].repetitions < ret.args.b.sets_[2].repetitions
    /\ ret.args.a.sets_[2].weight.amount > ret.args.b.sets_[2].weight.amount
    /\ ret.value.lt
    /\ ~ret.value.gt

-----------------------------------------------------------------------------
\* parser/parser.py: the text operations of the visitor
\* (a token text is a sequence of one-character strings)

DigitChars == <<"0", "1", "2", "3", "4", "5", "6", "7", "8", "9">>

DigitValue(c) == (CHOOSE d \in 1..Len(DigitChars) : DigitChars[d] = c) - 1

\* str(n) for 0 <= n <= 99, used to write the inputs
Numeral(n) ==
    IF n < 10 THEN <<DigitChars[n + 1]>>
    ELSE <<DigitChars[(n \div 10) + 1], DigitChars[(n % 10) + 1]>>

\* int(text) and float(text) take an unsigned decimal numeral; anything else is a ValueError
IsNumeral(text) ==
    /\ text # <<>>
    /\ \A i \in 1..Len(text) : \E d \in 1..Len(DigitChars) : DigitChars[d] = text[i]

RECURSIVE int_digits(_, _, _)
int_digits(text, i, acc) ==
    IF i > Len(text) THEN acc
    ELSE int_digits(text, i + 1, acc * 10 + DigitValue(text[i]))

int(text) == int_digits(text, 1, 0)

\* float(text) of an unsigned decimal numeral, in tenths
float(text) == int(text) * 10

\* text.removesuffix('k')
removesuffix_k(text) ==
    IF text # <<>> /\ text[Len(text)] = "k" THEN SubSeq(text, 1, Len(text) - 1) ELSE text

\* text.split('x')
RECURSIVE split_x(_, _, _, _)
split_x(text, i, chunk, chunks) ==
    IF i > Len(text) THEN Append(chunks, chunk)
    ELSE IF text[i] = "x" THEN split_x(text, i + 1, <<>>, Append(chunks, chunk))
    ELSE split_x(text, i + 1, Append(chunk, text[i]), chunks)

split(text) == split_x(text, 1, <<>>, <<>>)

-----------------------------------------------------------------------------
\* The parse tree of one workout, as the sequence of visitor calls its walk makes.
\* A block is a name and a sequence of items; an item is a weight-prefix, a Triple, a Pair,
\* a Single or a Fixed-multi-weight group.

NoText == <<>>

\* text: the text of the group's node; weights: the texts of its weight nodes; n, m, w: the
\* numbers as written (series, repetitions, weights), kept for stating the properties
Item(form, text, weights, n, m, w) ==
    [form |-> form, text |-> text, weights |-> weights, n |-> n, m |-> m, w |-> w]

WeightText(w, marker) == IF marker THEN Numeral(w) \o <<"k">> ELSE Numeral(w)

PrefixItem(w, marker) == Item("prefix", WeightText(w, marker), <<>>, 0, 0, <<w>>)
TripleItem(n, m, w, marker) ==
    Item("triple", Numeral(n) \o <<"x">> \o Numeral(m) \o <<"x">> \o WeightText(w, marker),
         <<WeightText(w, marker)>>, n, m, <<w>>)
PairItem(n, m) == Item("pair", Numeral(n) \o <<"x">> \o Numeral(m), <<>>, n, m, <<>>)
SingleItem(r) == Item("single", Numeral(r), <<>>, 1, r, <<>>)
\* w: the listed weights, markers: which of them carry the trailing k
FixedItem(r, w, markers) ==
    Item("fixed", Numeral(r), [k \in 1..Len(w) |-> WeightText(w[k], markers[k])], 1, r, w)

\* a token sequence that matches none of the forms: the parser leaves an error node in the
\* tree where the groups are
ErrorItem(text) == Item("error", text, <<>>, 0, 0, <<>>)

VisitorCall(rule, text) == [rule |-> rule, text |-> text]

\* the calls of one group, children before the rule's own code
GroupCalls(item) ==
    CASE item.form = "triple" ->
            <<VisitorCall("weight", item.weights[1]), VisitorCall("whole_set_", item.text)>>
      [] item.form = "pair" -> <<VisitorCall("group_of_rep_set", item.text)>>
      [] item.form = "single" -> <<VisitorCall("single_rep_set", item.text)>>
      [] item.form = "error" -> <<VisitorCall("error_node", item.text)>>

\* the calls of the set_ nodes of a block: a weight-prefix opens a set_ that holds the
\* comma-separated groups after it; a Fixed-multi-weight group is a set_ of its own
RECURSIVE ItemCalls(_, _, _)
ItemCalls(items, i, open) ==
    IF i > Len(items)
    THEN IF open THEN <<VisitorCall("set_exit", NoText)>> ELSE <<>>
    ELSE LET item == items[i]
             close == IF open THEN <<VisitorCall("set_exit", NoText)>> ELSE <<>>
             enter == <<VisitorCall("set_enter", NoText)>>
         IN  CASE item.form = "prefix" ->
                     close \o enter \o <<VisitorCall("weight", item.text)>>
                     \o ItemCalls(items, i + 1, TRUE)
               [] item.form = "fixed" ->
                     close \o enter \o <<VisitorCall("single_rep_set2", item.text)>>
                     \o [k \in 1..Len(item.weights) |-> VisitorCall("weight", item.weights[k])]
                     \o <<VisitorCall("set_exit", NoText)>>
                     \o ItemCalls(items, i + 1, FALSE)
               [] OTHER ->
                     (IF open THEN <<>> ELSE enter) \o GroupCalls(item)
                     \o ItemCalls(items, i + 1, TRUE)

Block(name, items) == [name |-> name, items |-> items]

BlockCalls(block) ==
    <<VisitorCall("exercise_enter", NoText), VisitorCall("exercise_name", block.name)>>
    \o ItemCalls(block.items, 1, FALSE)
    \o <<VisitorCall("exercise_exit", NoText)>>

RECURSIVE WorkoutCalls(_)
WorkoutCalls(blocks) ==
    IF blocks = <<>> THEN <<>> ELSE BlockCalls(Head(blocks)) \o WorkoutCalls(Tail(blocks))

-----------------------------------------------------------------------------
\* parser/parser.py: Formatter

\* Formatter.__init__: self.current = {}
EmptyDict == [cls |-> "dict"]

\* the dict visitExercise installs; the keys 'visitSingle_rep_set2' and 'repet' are absent
\* (FALSE / None) until visitSingle_rep_set2 adds them
NewCurrent ==
    [cls |-> "dict", name |-> "", repetitions |-> <<>>, weights |-> <<>>,
     visitSingle_rep_set2 |-> FALSE, repet |-> None]

\* append_serie as parser/test_parser.py expects it: Set_ and Weight values
append_serie_builds_sets(cur, number_of_repetitions, weight) ==
    [cur EXCEPT !.repetitions =
        Append(@, SetValue(number_of_repetitions, WeightValue(weight, KILOGRAM)))]

\* Formatter.append_serie: appends a dict, not a Set_
append_serie(cur, number_of_repetitions, weight) ==
    [cur EXCEPT !.repetitions =
        Append(@, DictSet(number_of_repetitions, DictWeight(weight, KILOGRAM)))]

\* for weight in weights: self.append_serie(number_of_repetitions, weight)
RECURSIVE append_for_each_weight(_, _, _, _)
append_for_each_weight(cur, number_of_repetitions, weights, i) ==
    IF i > Len(weights) THEN cur
    ELSE append_for_each_weight(append_serie(cur, number_of_repetitions, weights[i]),
                                number_of_repetitions, weights, i + 1)

\* for i in range(number_of_series): self.append_serie(number_of_repetitions, weight)
RECURSIVE append_series(_, _, _, _)
append_series(cur, number_of_series, number_of_repetitions, weight) ==
    IF number_of_series <= 0 THEN cur
    ELSE append_series(append_serie(cur, number_of_repetitions, weight),
                       number_of_series - 1, number_of_repetitions, weight)

\* Formatter._append_for_single_rep_set2
append_for_single_rep_set2(cur) ==
    IF cur.visitSingle_rep_set2
    THEN [append_for_each_weight(cur, cur.repet, cur.weights, 1)
             EXCEPT !.visitSingle_rep_set2 = FALSE, !.weights = <<>>]
    ELSE cur

Calls == WorkoutCalls(input)

AtCall(rule) ==
    /\ error = NoError
    /\ pc \in 1..Len(Calls)
    /\ Calls[pc].rule = rule

\* a visitExercise that keeps the weights of the block before
visitExercise_keeps_weights ==
    /\ AtCall("exercise_enter")
    /\ current' = IF current = EmptyDict THEN NewCurrent
                  ELSE [NewCurrent EXCEPT !.weights = current.weights]
    /\ pc' = pc + 1
    /\ UNCHANGED <<ex, ret, input, result, error>>

\* visitExercise, before its children: a fresh current
visitExercise_enter ==
    /\ AtCall("exercise_enter")
    /\ current' = NewCurrent
    /\ pc' = pc + 1
    /\ UNCHANGED <<ex, ret, input, result, error>>

\* visitExercise_name
visitExercise_name ==
    /\ AtCall("exercise_name")
    /\ current' = [current EXCEPT !.name = Calls[pc].text]
    /\ pc' = pc + 1
    /\ UNCHANGED <<ex, ret, input, result, error>>

\* visitWeight
visitWeight ==
    /\ AtCall("weight")
    /\ LET text == removesuffix_k(Calls[pc].text)
       IN  IF IsNumeral(text)
           THEN /\ current' = [current EXCEPT !.weights = Append(@, float(text))]
                /\ pc' = pc + 1
                /\ error' = error
           ELSE /\ error' = "ValueError"
                /\ UNCHANGED <<current, pc>>
    /\ UNCHANGED <<ex, ret, input, result>>

\* visitSet_, before its children
visitSet_enter ==
    /\ AtCall("set_enter")
    /\ current' = append_for_single_rep_set2(current)
    /\ pc' = pc + 1
    /\ UNCHANGED <<ex, ret, input, result, error>>

\* visitSet_, after its children
visitSet_exit ==
    /\ AtCall("set_exit")
    /\ current' = append_for_single_rep_set2(current)
    /\ pc' = pc + 1
    /\ UNCHANGED <<ex, ret, input, result, error>>

\* visitWhole_set_
visitWhole_set_ ==
    /\ AtCall("whole_set_")
    /\ LET chunks == split(Calls[pc].text)
       IN  IF /\ Len(chunks) >= 3
              /\ IsNumeral(chunks[1])
              /\ IsNumeral(chunks[2])
              /\ IsNumeral(removesuffix_k(chunks[3]))
           THEN /\ current' =
                      [append_series(current, int(chunks[1]), int(chunks[2]),
                                     float(removesuffix_k(chunks[3])))
                          EXCEPT !.weights = <<>>]
                /\ pc' = pc + 1
                /\ error' = error
           ELSE /\ error' = IF Len(chunks) >= 3 THEN "ValueError" ELSE "IndexError"
                /\ UNCHANGED <<current, pc>>
    /\ UNCHANGED <<ex, ret, input, result>>

\* visitGroup_of_rep_set
visitGroup_of_rep_set ==
    /\ AtCall("group_of_rep_set")
    /\ LET chunks == split(Calls[pc].text)
       IN  IF Len(chunks) < 2 THEN
               /\ error' = "IndexError"
               /\ UNCHANGED <<current, pc>>
           ELSE IF ~(IsNumeral(chunks[1]) /\ IsNumeral(chunks[2])) THEN
               /\ error' = "ValueError"
               /\ UNCHANGED <<current, pc>>
           ELSE IF Len(current.weights) # 1 THEN
               /\ error' = "AssertionError"
               /\ UNCHANGED <<current, pc>>
           ELSE
               /\ current' = append_series(current, int(chunks[1]), int(chunks[2]),
                                           current.weights[1])
               /\ pc' = pc + 1
               /\ error' = error
    /\ UNCHANGED <<ex, ret, input, result>>

\* visitSingle_rep_set
visitSingle_rep_set ==
    /\ AtCall("single_rep_set")
    /\ IF IsNumeral(Calls[pc].text)
       THEN /\ current' = append_for_each_weight(current, int(Calls[pc].text),
                                                 current.weights, 1)
            /\ pc' = pc + 1
            /\ error' = error
       ELSE /\ error' = "ValueError"
            /\ UNCHANGED <<current, pc>>
    /\ UNCHANGED <<ex, ret, input, result>>

\* visitSingle_rep_set2
visitSingle_rep_set2 ==
    /\ AtCall("single_rep_set2")
    /\ IF IsNumeral(Calls[pc].text)
       THEN /\ current' = [current EXCEPT !.visitSingle_rep_set2 = TRUE,
                                          !.repet = int(Calls[pc].text)]
            /\ pc' = pc + 1
            /\ error' = error
       ELSE /\ current' = [current EXCEPT !.visitSingle_rep_set2 = TRUE]
            /\ error' = "ValueError"
            /\ pc' = pc
    /\ UNCHANGED <<ex, ret, input, result>>

\* a visitErrorNode that only prints the node
visitErrorNode_returns ==
    /\ AtCall("error_node")
    /\ pc' = pc + 1
    /\ UNCHANGED <<ex, ret, input, current, result, error>>

\* visitErrorNode: raise ValueError(node)
visitErrorNode ==
    /\ AtCall("error_node")
    /\ error' = "ValueError"
    /\ UNCHANGED <<ex, ret, input, pc, current, result>>

\* visitExercise, after its children: Exercise(name, repetitions) appended to result
visitExercise_exit ==
    /\ AtCall("exercise_exit")
    /\ LET made == Exercise(current.name, current.repetitions)
       IN  IF made.raised = NoError
           THEN /\ result' = Append(result, made.value)
                /\ pc' = pc + 1
                /\ error' = error
           ELSE /\ error' = made.raised
                /\ UNCHANGED <<result, pc>>
    /\ UNCHANGED <<ex, ret, input, current>>

\* Parser.parse_sessions ends: it returns formatter.result, or the exception of the visit
\* propagates to the caller
parse_sessions ==
    /\ ret.op = "start"
    /\ \/ /\ error = NoError
          /\ pc = Len(Calls) + 1
          /\ ret' = Call("parse_sessions", None, NoError, result)
       \/ /\ error # NoError
          /\ ret' = Call("parse_sessions", None, error, None)
    /\ UNCHANGED <<ex, input, pc, current, result, error>>

-----------------------------------------------------------------------------
\* Scenario 3 (SpecParse): Parser.parse_sessions on one workout text

\* most groups of a generated block
MaxItems == 3

Items ==
    {PrefixItem(60, TRUE), PrefixItem(10, FALSE),
     TripleItem(5, 6, 40, TRUE), TripleItem(1, 2, 40, FALSE),
     PairItem(4, 5), SingleItem(12),
     FixedItem(15, <<40, 50>>, <<FALSE, FALSE>>), FixedItem(15, <<40>>, <<TRUE>>),
     ErrorItem(<<"l">>)}

GeneratedBlocks == {Block("a", items) : items \in SeqsUpTo(Items, MaxItems) \ {<<>>}}

\* the inputs of parser/test_parser.py
SquatPair == Block("Squat", <<PrefixItem(70, TRUE), PairItem(5, 10)>>)
BenchSingleThenPair ==
    Block("Bench press", <<PrefixItem(10, TRUE), SingleItem(4), PairItem(4, 5)>>)
SquatFixedThenPrefix ==
    Block("Squat", <<FixedItem(15, <<40, 50>>, <<FALSE, FALSE>>), PrefixItem(60, TRUE),
                     SingleItem(12), SingleItem(11)>>)
OverheadTriple == Block("Overhead press", <<TripleItem(5, 6, 40, TRUE)>>)
BenchTwoTriples == Block("Bench", <<TripleItem(1, 1, 60, TRUE), TripleItem(1, 2, 40, TRUE)>>)
BenchThreeTriples ==
    Block("Bench press", <<TripleItem(3, 50, 10, TRUE), TripleItem(3, 15, 10, TRUE),
                           TripleItem(3, 6, 10, TRUE)>>)

BenchTripleThenPrefix ==
    Block("Bench press", <<TripleItem(3, 50, 10, TRUE), PrefixItem(60, FALSE), SingleItem(12),
                           SingleItem(11)>>)
BenchTripleThenPrefixKg ==
    Block("Bench press", <<TripleItem(3, 50, 10, TRUE), PrefixItem(60, TRUE), SingleItem(12),
                           SingleItem(11)>>)
SquatFixed == Block("Squat", <<FixedItem(15, <<40, 50>>, <<FALSE, FALSE>>)>>)
DeadliftWrongSuffix == Block("Deadlift", <<TripleItem(1, 20, 20, FALSE), ErrorItem(<<"l">>)>>)

TestBlocks ==
    {SquatPair, BenchSingleThenPair, SquatFixedThenPrefix, OverheadTriple, BenchTwoTriples,
     BenchThreeTriples, BenchTripleThenPrefix, BenchTripleThenPrefixKg, SquatFixed,
     DeadliftWrongSuffix}

\* most exercise blocks of a workout text
MaxBlocks == 2

\* earlier blocks of a workout of several blocks: they leave weights in the register, a
\* Single without a weight, or sets
EarlierBlocks ==
    {Block("b", <<PrefixItem(60, TRUE)>>),
     Block("b", <<PrefixItem(60, TRUE), PrefixItem(10, FALSE)>>),
     Block("b", <<SingleItem(12)>>),
     SquatPair}

\* the last block of such a workout, written with numbers no earlier block has
LaterItems ==
    {PrefixItem(20, FALSE), SingleItem(7), PairItem(2, 3), TripleItem(2, 9, 35, TRUE),
     FixedItem(8, <<30>>, <<FALSE>>)}

LaterBlocks == {Block("c", items) : items \in SeqsUpTo(LaterItems, 2) \ {<<>>}}

SeveralBlocks ==
    {earlier \o <<later>> :
        earlier \in SeqsUpTo(EarlierBlocks, MaxBlocks - 1) \ {<<>>}, later \in LaterBlocks}

Workouts == {<<block>> : block \in GeneratedBlocks \cup TestBlocks} \cup SeveralBlocks

\* the state after lexing, parsing and Formatter()
InitParse ==
    /\ ex = None
    /\ ret = Call("start", None, NoError, None)
    /\ input \in Workouts
    /\ pc = 1
    /\ current = EmptyDict
    /\ result = <<>>
    /\ error = NoError

NextParse ==
    \/ visitExercise_enter
    \/ visitExercise_name
    \/ visitWeight
    \/ visitSet_enter
    \/ visitSet_exit
    \/ visitWhole_set_
    \/ visitGroup_of_rep_set
    \/ visitSingle_rep_set
    \/ visitSingle_rep_set2
    \/ visitErrorNode
    \/ visitExercise_exit
    \/ parse_sessions

SpecParse == InitParse /\ [][NextParse]_vars

-----------------------------------------------------------------------------
\* Properties of the parse

\* the Weight of W kg, W a whole number as written in the notation
Kg(amount) == WeightValue(amount * 10, "kg")
Copies(n, s) == [i \in 1..n |-> s]

\* the sets the notation assigns to a block: a weight-prefix sets the current weight, a Triple
\* is N copies of Set(M, W), a Pair N copies of Set(M, current weight), a Single one
\* Set(R, current weight), a Fixed-multi-weight group one Set(R, Wi) per listed weight
RECURSIVE NotationSets(_, _, _)
NotationSets(items, i, weight) ==
    IF i > Len(items) THEN <<>>
    ELSE LET item == items[i]
         IN  CASE item.form = "prefix" -> NotationSets(items, i + 1, item.w[1])
               [] item.form = "triple" ->
                     Copies(item.n, SetValue(item.m, Kg(item.w[1])))
                     \o NotationSets(items, i + 1, weight)
               [] item.form = "fixed" ->
                     [k \in 1..Len(item.w) |-> SetValue(item.m, Kg(item.w[k]))]
                     \o NotationSets(items, i + 1, weight)
               [] OTHER ->
                     Copies(item.n, SetValue(item.m, Kg(weight)))
                     \o NotationSets(items, i + 1, weight)

\* every Pair and Single of the block comes after a weight-prefix
HasCurrentWeight(items) ==
    \A i \in 1..Len(items) :
        items[i].form \in {"pair", "single"} => \E j \in 1..(i - 1) : items[j].form = "prefix"

\* the weight-prefixes before item i since the last Triple or Fixed-multi-weight group (or
\* the start of the block)
PrefixesInScope(items, i) ==
    LET before == {k \in 1..(i - 1) : items[k].form \in {"triple", "fixed"}}
        start == IF before = {} THEN 0 ELSE CHOOSE k \in before : \A l \in before : l <= k
    IN  {k \in (start + 1)..(i - 1) : items[k].form = "prefix"}

\* every Pair and Single of the block has exactly one weight-prefix in scope, and every
\* Fixed-multi-weight group none
OneWeightInScope(items) ==
    \A i \in 1..Len(items) :
        /\ items[i].form \in {"pair", "single"} => Cardinality(PrefixesInScope(items, i)) = 1
        /\ items[i].form = "fixed" => PrefixesInScope(items, i) = {}

Forms(items) == [i \in 1..Len(items) |-> items[i].form]

\* the block matches the grammar: it holds no error node
Accepted(items) == \A i \in 1..Len(items) : items[i].form # "error"

Returned == ret.op = "parse_sessions"

\* C8: a block "Name W: NxM" parses to one Exercise of that name whose sets are N copies of
\* Set(M, W kg); "Squat 70k: 5x10" gives Exercise("Squat", [Set(10, 70kg)] * 5).
C8_PairUsesNameLevelWeight ==
    (Returned /\ Forms(input[1].items) = <<"prefix", "pair">>) =>
        LET items == input[1].items
        IN  /\ ret.raised = NoError
            /\ ret.value =
                  <<ExerciseValue(input[1].name,
                                  Copies(items[2].n, SetValue(items[2].m, Kg(items[1].w[1]))))>>

\* C9: the sets of the parsed Exercise are the groups' sets concatenated in textual order,
\* for any mix of the forms in which each Pair and Single has its one current weight; "Bench press 10k: 4, 4x5" gives [Set(4,10kg), Set(5,10kg) x4]
\* and "Squat: 15xx40,50 60k: 12,11" gives [Set(15,40kg), Set(15,50kg), Set(12,60kg),
\* Set(11,60kg)].
C9_SetsInTextualOrder ==
    (Returned /\ Accepted(input[1].items) /\ OneWeightInScope(input[1].items)) =>
        /\ ret.raised = NoError
        /\ ret.value =
              <<ExerciseValue(input[1].name, NotationSets(input[1].items, 1, None))>>

\* C10: a Triple NxMxW gives N copies of Set(M, W kg), several Triples one after the other;
\* "Overhead press 5x6x40k" gives 5 copies of Set(6, 40kg).
C10_TripleEmitsCopies ==
    (Returned /\ \A i \in 1..Len(input[1].items) : input[1].items[i].form = "triple") =>
        /\ ret.raised = NoError
        /\ ret.value =
              <<ExerciseValue(input[1].name, NotationSets(input[1].items, 1, None))>>

\* C11: a Fixed-multi-weight group "R xx W1,...,Wn" gives one Set(R, Wi kg) per listed weight,
\* in listed order, and no other set; "Squat: 15xx40,50" gives [Set(15,40kg), Set(15,50kg)].
C11_FixedEmitsOnePerWeight ==
    (Returned /\ \A i \in 1..Len(input[1].items) : input[1].items[i].form = "fixed") =>
        /\ ret.raised = NoError
        /\ ret.value =
              <<ExerciseValue(input[1].name, NotationSets(input[1].items, 1, None))>>

\* C12: a block with a token sequence that matches none of the forms makes the parse fail:
\* the error propagates to the caller and no list of Exercises, not even a partial one, is
\* returned; "Deadlift: 1x20x20l" raises.
C12_ErrorNodeFailsParse ==
    (Returned /\ ~Accepted(input[1].items)) =>
        /\ ret.raised # NoError
        /\ ret.value = None

C12_Witness ==
    /\ Returned
    /\ input = <<DeadliftWrongSuffix>>
    /\ ret.raised = "ValueError"
    /\ ret.value = None

\* the block with the trailing k of every weight-prefix removed
WithoutMarkers(items) ==
    [i \in 1..Len(items) |->
        IF items[i].form = "prefix" THEN PrefixItem(items[i].w[1], FALSE) ELSE items[i]]

HasPrefix(items) == \E i \in 1..Len(items) : items[i].form = "prefix"

\* C13: a weight-prefix written "n" or "nk" gives the same weight: the block parses to the
\* Exercise of the block without the markers, and every weight is in kg.
C13_WeightMarkerOptional ==
    (/\ Returned
     /\ Accepted(input[1].items)
     /\ HasPrefix(input[1].items)
     /\ OneWeightInScope(input[1].items)) =>
        /\ ret.raised = NoError
        /\ ret.value =
              <<ExerciseValue(input[1].name,
                              NotationSets(WithoutMarkers(input[1].items), 1, None))>>
        /\ UnitsOf(ret.value[1].sets_) \subseteq {"kg"}

\* a Set value that satisfies the invariants of the value model, in kg
IsKgSet(s) == IsValidSet(s) /\ s.weight.unit = "kg"

Plain(sets_) ==
    [i \in 1..Len(sets_) |->
        <<sets_[i].repetitions, sets_[i].weight.amount, sets_[i].weight.unit>>]

\* a block of weight-prefixes, Singles and Pairs that starts with a weight-prefix and has a
\* later weight-prefix followed by a Single or a Pair
SupersededPrefix(items) ==
    /\ items # <<>>
    /\ items[1].form = "prefix"
    /\ \A i \in 1..Len(items) : items[i].form \in {"prefix", "single", "pair"}
    /\ \E j \in 2..Len(items) :
          /\ items[j].form = "prefix"
          /\ \E k \in (j + 1)..Len(items) : items[k].form \in {"single", "pair"}

\* C20: after a later weight-prefix W2 the register holds only W2: each following Single R
\* emits exactly Set(R, W2), each following Pair NxM exactly N copies of Set(M, W2), and the
\* earlier weight W1 is applied to no later set.
C20_LaterPrefixReplacesRegister ==
    SupersededPrefix(input[1].items) =>
        /\ error # "AssertionError"
        /\ AtCall("exercise_exit") =>
              Plain(current.repetitions) = Plain(NotationSets(input[1].items, 1, None))

\* a block that starts with a weight-prefix, goes on with Triples and Fixed-multi-weight
\* groups only and ends with one Pair or Single
BareGroupAfterEmbeddedWeight(items) ==
    /\ Len(items) >= 3
    /\ items[1].form = "prefix"
    /\ \A i \in 2..(Len(items) - 1) : items[i].form \in {"triple", "fixed"}
    /\ items[Len(items)].form \in {"pair", "single"}

\* the last n elements of a sequence (all of it when it is shorter)
LastOf(seq, n) == SubSeq(seq, Len(seq) - Min(n, Len(seq)) + 1, Len(seq))

\* C21: a Triple or Fixed-multi-weight group leaves the current-weight register as it was: a
\* Pair or Single after such a group emits its sets at the weight of the weight-prefix
\* before the group, never at a weight written inside the group.
C21_EmbeddedWeightKeepsRegister ==
    BareGroupAfterEmbeddedWeight(input[1].items) =>
        /\ error # "AssertionError"
        /\ AtCall("exercise_exit") =>
              LET items == input[1].items
                  last == items[Len(items)]
              IN  LastOf(Plain(current.repetitions), last.n) =
                      Plain(Copies(last.n, SetValue(last.m, Kg(items[1].w[1]))))

\* a block without error nodes whose first group is a Pair or a Single and has no
\* weight-prefix before it
NoCurrentWeight(items) ==
    /\ Accepted(items)
    /\ items # <<>>
    /\ items[1].form \in {"pair", "single"}

\* C22: a Pair or Single reached while no current weight is set fails the parse, with the
\* same kind of error for a Pair and for a Single, and no Exercise, complete or partial, is
\* returned.
C22_MissingWeightFailsParse ==
    (Returned /\ NoCurrentWeight(input[1].items)) =>
        /\ ret.raised = "AssertionError"
        /\ ret.value = None

\* the number of exercise blocks the walk has entered
Entered == Cardinality({i \in 1..Min(pc - 1, Len(Calls)) : Calls[i].rule = "exercise_enter"})

\* the weights (in tenths of a kg) and the repetition counts written in a block
WeightsWritten(block) ==
    UNION {{block.items[i].w[k] * 10 : k \in 1..Len(block.items[i].w)} :
              i \in 1..Len(block.items)}

RepetitionsWritten(block) == {block.items[i].m : i \in 1..Len(block.items)}

\* every set of the sequence has a repetition count and a weight written in the block
FromBlock(sets_, block) ==
    \A i \in 1..Len(sets_) :
        /\ sets_[i].repetitions \in RepetitionsWritten(block)
        /\ sets_[i].weight.amount \in WeightsWritten(block)

\* C23: the current-weight register, the pending Fixed-multi-weight state and the set
\* accumulator belong to one exercise block: every block of a parse of several blocks starts
\* with all three empty, and no weight, repetition count or set of an earlier block is
\* applied to or included in a later one.
C23_RegisterIsBlockScoped ==
    (Len(input) > 1 /\ Entered >= 1) =>
        LET block == input[Entered]
        IN  /\ Calls[pc - 1].rule = "exercise_enter" => current = NewCurrent
            /\ current.name \in {"", block.name}
            /\ \A i \in 1..Len(current.weights) : current.weights[i] \in WeightsWritten(block)
            /\ current.visitSingle_rep_set2 => current.repet \in RepetitionsWritten(block)
            /\ FromBlock(current.repetitions, block)
            /\ Len(result) <= Entered
            /\ \A j \in 1..Len(result) :
                  /\ result[j].name = input[j].name
                  /\ FromBlock(result[j].sets_, input[j])

\* the second block has emitted a set after a first block that left a weight in the
\* register
C23_Witness ==
    /\ Len(input) > 1
    /\ Entered = 2
    /\ HasPrefix(input[1].items)
    /\ Len(result) = 1
    /\ current.repetitions # <<>>

-----------------------------------------------------------------------------
\* Scenario 3b (SpecInterleaved): a caller parses two texts, each alone, and then parses
\* the same two texts in two invocations of Parser.parse_sessions whose visitor steps
\* interleave. The variables pc, current, result, error, input and ret are those of the
\* running invocation; ex holds the suspended one and what the caller has seen.

\* a parse invocation: the locals of Parser.parse_sessions (the tree, the position of the
\* walk, the outcome) and the attributes of the Formatter it creates
Invocation(id, text, at, current_, result_, error_, ret_) ==
    [id |-> id, input |-> text, pc |-> at, current |-> current_, result |-> result_,
     error |-> error_, ret |-> ret_]

\* Parser.parse_sessions up to formatter = Formatter(): Formatter.__init__ gives the new
\* instance an empty result and an empty current
NewInvocation(id, text) ==
    Invocation(id, text, 1, EmptyDict, <<>>, NoError, Call("start", None, NoError, None))

\* a Formatter whose current were an attribute of the class: the invocation that resumes
\* finds what the other invocation wrote last
current_of_class(own, last_written) == last_written

\* self.current of the Formatter of the invocation that resumes: the attribute of its own
\* instance, whatever another instance wrote
current_of_instance(own, last_written) == own

ConcurrentTexts ==
    {<<SquatPair>>, <<OverheadTriple>>, <<SquatFixedThenPrefix>>, <<DeadliftWrongSuffix>>,
     <<Block("b", <<PrefixItem(60, TRUE)>>)>>,
     <<Block("b", <<SingleItem(12)>>)>>,
     <<Block("b", <<PrefixItem(60, TRUE)>>), Block("c", <<SingleItem(7), PairItem(2, 3)>>)>>}

InitInterleaved ==
    /\ \E first \in ConcurrentTexts, second \in ConcurrentTexts :
          /\ ex = [cls |-> "Invocations", texts |-> <<first, second>>, alone |-> <<>>,
                   active |-> 0, suspended |-> <<>>]
          /\ input = first
    /\ ret = Call("start", None, NoError, None)
    /\ pc = 1
    /\ current = EmptyDict
    /\ result = <<>>
    /\ error = NoError

\* the running invocation becomes the given one
Resume(invocation) ==
    /\ input' = invocation.input
    /\ pc' = invocation.pc
    /\ result' = invocation.result
    /\ error' = invocation.error
    /\ ret' = invocation.ret

\* the caller, after the first text has been parsed alone, parses the second alone
CallSecondAlone ==
    /\ ex.cls = "Invocations"
    /\ ex.active = 0
    /\ ex.alone = <<>>
    /\ ret.op = "parse_sessions"
    /\ ex' = [ex EXCEPT !.alone = <<ret>>]
    /\ Resume(NewInvocation(0, ex.texts[2]))
    /\ current' = EmptyDict

\* the caller, after both texts have been parsed alone, starts the two invocations that
\* interleave
CallBoth ==
    /\ ex.cls = "Invocations"
    /\ ex.active = 0
    /\ Len(ex.alone) = 1
    /\ ret.op = "parse_sessions"
    /\ ex' = [ex EXCEPT !.alone = Append(@, ret), !.active = 1,
                        !.suspended = <<NewInvocation(2, ex.texts[2])>>]
    /\ Resume(NewInvocation(1, ex.texts[1]))
    /\ current' = EmptyDict

\* the scheduler suspends the running invocation between two visitor steps and resumes the
\* other one
Switch ==
    /\ ex.cls = "Invocations"
    /\ ex.active # 0
    /\ ex' = [ex EXCEPT !.active = ex.suspended[1].id,
                        !.suspended =
                            <<Invocation(ex.active, input, pc, current, result, error, ret)>>]
    /\ Resume(ex.suspended[1])
    /\ current' = current_of_instance(ex.suspended[1].current, current)

NextInterleaved ==
    \/ visitExercise_enter
    \/ visitExercise_name
    \/ visitWeight
    \/ visitSet_enter
    \/ visitSet_exit
    \/ visitWhole_set_
    \/ visitGroup_of_rep_set
    \/ visitSingle_rep_set
    \/ visitSingle_rep_set2
    \/ visitErrorNode
    \/ visitExercise_exit
    \/ parse_sessions
    \/ CallSecondAlone
    \/ CallBoth
    \/ Switch

SpecInterleaved == InitInterleaved /\ [][NextInterleaved]_vars

\* the same outcome: the same exception, or the same list of Exercises
SameReturn(a, b) ==
    /\ a.raised = b.raised
    /\ a.raised = NoError => a.value = b.value

\* C24: parse invocations share no mutable state: whatever the interleaving of the visitor
\* steps of two invocations, each returns exactly what the parse of its text returns when
\* it runs alone.
C24_InterleavedParsesAgreeWithAlone ==
    (ex.cls = "Invocations" /\ ex.active # 0) =>
        /\ ret.op = "parse_sessions" => SameReturn(ret, ex.alone[ex.active])
        /\ ex.suspended[1].ret.op = "parse_sessions" =>
              SameReturn(ex.suspended[1].ret, ex.alone[ex.suspended[1].id])

\* one invocation has returned a list of Exercises while the other is suspended in the
\* middle of a block, with a weight in its register
C24_Witness ==
    /\ ex.cls = "Invocations"
    /\ ex.active # 0
    /\ ret.op = "parse_sessions"
    /\ ret.raised = NoError
    /\ ret.value # <<>>
    /\ ex.suspended[1].ret.op = "start"
    /\ ex.suspended[1].current # EmptyDict
    /\ ex.suspended[1].current.weights # <<>>

-----------------------------------------------------------------------------
\* parser/standardize_name.py: StandardizeName
\* (a name is a sequence of one-character strings; the characters of the model are the ASCII
\* letters, the space and the hyphen)

LowerChars ==
    <<"a", "b", "c", "d", "e", "f", "g", "h", "i", "j", "k", "l", "m",
      "n", "o", "p", "q", "r", "s", "t", "u", "v", "w", "x", "y", "z">>
UpperChars ==
    <<"A", "B", "C", "D", "E", "F", "G", "H", "I", "J", "K", "L", "M",
      "N", "O", "P", "Q", "R", "S", "T", "U", "V", "W", "X", "Y", "Z">>

IsLower(c) == \E i \in 1..Len(LowerChars) : LowerChars[i] = c
IsUpper(c) == \E i \in 1..Len(UpperChars) : UpperChars[i] = c
ToLower(c) ==
    IF IsUpper(c) THEN LowerChars[CHOOSE i \in 1..Len(UpperChars) : UpperChars[i] = c] ELSE c
ToUpper(c) ==
    IF IsLower(c) THEN UpperChars[CHOOSE i \in 1..Len(LowerChars) : LowerChars[i] = c] ELSE c

\* a casefold that leaves the name as written
casefold_keeps_case(text) == text

\* str.casefold()
casefold(text) == [i \in 1..Len(text) |-> ToLower(text[i])]

\* str.lstrip(), str.rstrip(), str.strip()
RECURSIVE lstrip(_)
lstrip(text) == IF text # <<>> /\ Head(text) = " " THEN lstrip(Tail(text)) ELSE text

RECURSIVE rstrip(_)
rstrip(text) ==
    IF text # <<>> /\ text[Len(text)] = " " THEN rstrip(SubSeq(text, 1, Len(text) - 1))
    ELSE text

strip(text) == rstrip(lstrip(text))

\* str.split(" ")
RECURSIVE split_space(_, _, _, _)
split_space(text, i, chunk, chunks) ==
    IF i > Len(text) THEN Append(chunks, chunk)
    ELSE IF text[i] = " " THEN split_space(text, i + 1, <<>>, Append(chunks, chunk))
    ELSE split_space(text, i + 1, Append(chunk, text[i]), chunks)

\* " ".join(parts)
RECURSIVE join(_)
join(parts) ==
    IF parts = <<>> THEN <<>>
    ELSE IF Len(parts) = 1 THEN parts[1]
    ELSE parts[1] \o <<" ">> \o join(Tail(parts))

\* str.title(): a cased character is upper case after an uncased one (or at the start) and
\* lower case after a cased one
RECURSIVE title_from(_, _, _, _)
title_from(text, i, previous_is_cased, out) ==
    IF i > Len(text) THEN out
    ELSE LET c == text[i]
             cased == IsLower(c) \/ IsUpper(c)
         IN  title_from(text, i + 1, cased,
                        Append(out, IF ~cased THEN c
                                    ELSE IF previous_is_cased THEN ToLower(c)
                                    ELSE ToUpper(c)))

title(text) == title_from(text, 1, FALSE, <<>>)

Synonym(clean, synonyms_) == [clean |-> clean, synonyms |-> synonyms_]

\* self._synonyms
synonyms ==
    <<
      Synonym(<<"o", "v", "e", "r", "h", "e", "a", "d", " ", "p", "r", "e", "s", "s">>,
               <<<<"o", "h">>, <<"o", "p">>>>),
      Synonym(<<"i", "n", "c", "l", "i", "n", "e", "d", " ", "b", "e", "n", "c", "h", " ",
          "p", "r", "e", "s", "s">>,
               <<<<"i", "b", "p">>>>),
      Synonym(<<"b", "e", "n", "c", "h", " ", "p", "r", "e", "s", "s">>,
               <<<<"b", "e", "n", "c", "h">>, <<"b", "p">>>>),
      Synonym(<<"m", "a", "c", "h", "i", "n", "e", " ", "l", "a", "t", "e", "r", "a", "l",
          " ", "p", "u", "l", "l", "-", "d", "o", "w", "n">>,
               <<<<"l", "a", "t", " ", "p", "u", "l", "l", "-", "d", "o", "w", "n">>, <<"l",
                   "a", "t", " ", "p", "u", "l", "l", " ", "d", "o", "w", "n">>, <<"m", "l",
                   "p", "d">>>>),
      Synonym(<<"l", "a", "t", "e", "r", "a", "l", " ", "p", "u", "l", "l", "-", "d", "o",
          "w", "n">>,
               <<<<"l", "p", "d">>>>),
      Synonym(<<"m", "a", "c", "h", "i", "n", "e", " ", "r", "o", "w">>,
               <<<<"m", "r">>>>),
      Synonym(<<"l", "o", "w", " ", "r", "o", "w">>,
               <<<<"l", "r">>>>),
      Synonym(<<"r", "o", "w">>,
               <<<<"r">>>>),
      Synonym(<<"b", "a", "r", "b", "e", "l", "l", " ", "r", "o", "w">>,
               <<<<"b", "r">>>>),
      Synonym(<<"s", "q", "u", "a", "t">>,
               <<<<"s">>>>),
      Synonym(<<"d", "e", "a", "d", "l", "i", "f", "t">>,
               <<<<"d">>>>),
      Synonym(<<"l", "e", "g", " ", "e", "x", "t", "e", "n", "s", "i", "o", "n">>,
               <<<<"l", "e">>>>),
      Synonym(<<"l", "e", "g", " ", "c", "u", "r", "l">>,
               <<<<"l", "c">>>>),
      Synonym(<<"m", "a", "c", "h", "i", "n", "e">>,
               <<<<"m">>>>),
      Synonym(<<"s", "m", "i", "t", "h", " ", "m", "a", "c", "h", "i", "n", "e">>,
               <<<<"s", "m">>>>)
    >>

\* the clean names appended for one part: one for every synonym of every group that equals
\* the part
RECURSIVE matches(_, _, _, _)
matches(table, part, g, k) ==
    IF g > Len(table) THEN <<>>
    ELSE IF k > Len(table[g].synonyms) THEN matches(table, part, g + 1, 1)
    ELSE (IF strip(part) = casefold(table[g].synonyms[k]) THEN <<table[g].clean>> ELSE <<>>)
         \o matches(table, part, g, k + 1)

\* a substitution that depends on the other tokens: only a name of one token is replaced
original_or_synonym_when_alone(table, parts, i) ==
    IF Len(parts) = 1 /\ matches(table, parts[1], 1, 1) # <<>>
    THEN matches(table, parts[1], 1, 1)
    ELSE parts

RECURSIVE original_or_synonym_parts(_, _, _)
original_or_synonym_parts(table, parts, i) ==
    IF i > Len(parts) THEN <<>>
    ELSE LET appended == matches(table, parts[i], 1, 1)
         IN  (IF appended = <<>> THEN <<parts[i]>> ELSE appended)
             \o original_or_synonym_parts(table, parts, i + 1)

\* a lookup that first compares the whole name with the synonyms
whole_name_or_synonym(self, raw_name) ==
    IF matches(self.synonyms, casefold(strip(raw_name)), 1, 1) # <<>>
    THEN join(matches(self.synonyms, casefold(strip(raw_name)), 1, 1))
    ELSE join(original_or_synonym_parts(self.synonyms,
                  split_space(casefold(strip(raw_name)), 1, <<>>, <<>>), 1))

\* StandardizeName._original_or_synonym
original_or_synonym(self, raw_name) ==
    join(original_or_synonym_parts(self.synonyms,
                                   split_space(casefold(strip(raw_name)), 1, <<>>, <<>>), 1))

\* StandardizeName.run
run(self, raw_name) == rstrip(title(original_or_synonym(self, raw_name)))

\* chain(*[synonym['synonyms'] for synonym in synonyms])
RECURSIVE chain(_)
chain(lists) == IF lists = <<>> THEN <<>> ELSE Head(lists) \o chain(Tail(lists))

\* StandardizeName.all_elements_are_different
all_elements_are_different(values) ==
    Cardinality({values[i] : i \in 1..Len(values)}) = Len(values)

\* StandardizeName._check_non_repeating_clean_name
check_non_repeating_clean_name(table) ==
    IF all_elements_are_different([i \in 1..Len(table) |-> table[i].clean]) THEN NoError
    ELSE "AssertionError"

\* StandardizeName._check_non_overlapping_synonyms
check_non_overlapping_synonyms(table) ==
    IF all_elements_are_different(chain([i \in 1..Len(table) |-> table[i].synonyms]))
    THEN NoError
    ELSE "AssertionError"

\* a configuration check that looks at the synonyms only
check_synonyms_only(table) == check_non_overlapping_synonyms(table)

\* StandardizeName._check_synonym_configuration
check_synonym_configuration(table) ==
    IF check_non_overlapping_synonyms(table) # NoError
    THEN check_non_overlapping_synonyms(table)
    ELSE check_non_repeating_clean_name(table)

StandardizeNameValue(table) == [cls |-> "StandardizeName", synonyms |-> table]

\* StandardizeName.__init__ with the table `table` as self._synonyms
StandardizeName(table) ==
    LET raised == check_synonym_configuration(table)
    IN  [raised |-> raised,
         value |-> IF raised = NoError THEN StandardizeNameValue(table) ELSE None]

-----------------------------------------------------------------------------
\* Scenario 4 (SpecNames): a StandardizeName is constructed, then one call of run or of
\* _check_synonym_configuration is made on it

\* longest generated name
MaxNameLen == 4
\* most entries of a generated configuration, most synonyms of an entry
MaxEntries == 2
MaxSynonyms == 2

NameChars == {"o", "O", "h", "p", "x", " "}

\* the names of parser/test_standardize_name.py
TestNames ==
    {<<"O", "v", "e", "r", "h", "e", "a", "d", " ", "p", "r", "e", "s", "s">>,
     <<"O", "v", "e", "r", "h", "e", "a", "d", " ", "P", "r", "e", "s", "s", " ", " ">>,
     <<"O", "h">>, <<"O", "h", " ">>, <<"o", "h">>, <<"b", "e", "n", "c", "h">>,
     <<"l", "p", "d">>}

\* the exercise names of tests/test_cli.py
CliNames ==
    {<<"B", "e", "n", "c", "h", " ", "p", "r", "e", "s", "s">>,
     <<"S", "q", "u", "a", "t">>, <<"D", "e", "a", "d", "l", "i", "f", "t">>}

\* every synonym of the configuration, used as a name
SynonymNames ==
    {synonyms[g].synonyms[k] : <<g, k>> \in
        {p \in (1..Len(synonyms)) \X (1..3) : p[2] <= Len(synonyms[p[1]].synonyms)}}

RawNames == SeqsUpTo(NameChars, MaxNameLen) \cup TestNames \cup CliNames \cup SynonymNames

\* configurations in the style of parser/test_standardize_name.py: clean names a and b,
\* synonyms 1 and 2
ConfigEntries ==
    {Synonym(clean, synonyms_) :
        clean \in {<<"a">>, <<"b">>}, synonyms_ \in SeqsUpTo({<<"1">>, <<"2">>}, MaxSynonyms)}

Configurations == SeqsUpTo(ConfigEntries, MaxEntries)

\* the call the scenario makes once the object exists
PlannedCalls ==
    {[op |-> "run", args |-> name] : name \in RawNames}
    \cup {[op |-> "_check_synonym_configuration", args |-> table] : table \in Configurations}

InitNames ==
    /\ ex = None
    /\ ret = Call("start", None, NoError, None)
    /\ input \in PlannedCalls
    /\ pc = 1
    /\ current = EmptyDict
    /\ result = <<>>
    /\ error = NoError

\* StandardizeName()
StandardizeName_init ==
    /\ current = EmptyDict
    /\ error = NoError
    /\ LET made == StandardizeName(synonyms)
       IN  IF made.raised = NoError
           THEN /\ current' = made.value
                /\ error' = error
           ELSE /\ error' = made.raised
                /\ current' = current
    /\ UNCHANGED <<ex, ret, input, pc, result>>

\* self.run(raw_name)
CallRun ==
    /\ current.cls = "StandardizeName"
    /\ ret.op = "start"
    /\ input.op = "run"
    /\ ret' = Call("run", input.args, NoError, run(current, input.args))
    /\ UNCHANGED <<ex, input, pc, current, result, error>>

\* self._check_synonym_configuration(synonyms)
CallCheckSynonymConfiguration ==
    /\ current.cls = "StandardizeName"
    /\ ret.op = "start"
    /\ input.op = "_check_synonym_configuration"
    /\ ret' = Call("_check_synonym_configuration", input.args,
                   check_synonym_configuration(input.args), None)
    /\ UNCHANGED <<ex, input, pc, current, result, error>>

NextNames ==
    \/ StandardizeName_init
    \/ CallRun
    \/ CallCheckSynonymConfiguration

SpecNames == InitNames /\ [][NextNames]_vars

-----------------------------------------------------------------------------
\* Properties of the names

\* the name without the spaces around it
Trim(text) ==
    LET inked == {i \in 1..Len(text) : text[i] # " "}
    IN  IF inked = {} THEN <<>>
        ELSE SubSeq(text, CHOOSE i \in inked : \A j \in inked : i <= j,
                          CHOOSE i \in inked : \A j \in inked : j <= i)

SameIgnoringCase(a, b) ==
    /\ Len(a) = Len(b)
    /\ \A i \in 1..Len(a) : ToLower(a[i]) = ToLower(b[i])

\* the tokens of a name: its maximal pieces without a space
Tokens(text) ==
    {SubSeq(text, a, b) : <<a, b>> \in
        {p \in (1..Len(text)) \X (1..Len(text)) :
            /\ p[1] <= p[2]
            /\ \A i \in p[1]..p[2] : text[i] # " "
            /\ p[1] = 1 \/ text[p[1] - 1] = " "
            /\ p[2] = Len(text) \/ text[p[2] + 1] = " "}}

\* the entries of the table that list the token as a synonym
EntriesOf(token) ==
    {g \in 1..Len(synonyms) :
        \E k \in 1..Len(synonyms[g].synonyms) :
            SameIgnoringCase(token, synonyms[g].synonyms[k])}

\* each letter upper case at the start of a word and lower case inside it
TitleCase(text) ==
    [i \in 1..Len(text) |->
        IF i = 1 \/ ~(IsLower(text[i - 1]) \/ IsUpper(text[i - 1]))
        THEN ToUpper(text[i])
        ELSE ToLower(text[i])]

\* C15: run on a name that is one token equal, ignoring case and the spaces around it, to a
\* configured synonym returns the entry's clean phrase in title case; on a name without any
\* synonym token it returns the trimmed name in title case.
C15_RunStandardizesName ==
    ret.op = "run" =>
        LET name == Trim(ret.args)
        IN  /\ (Tokens(name) = {name} /\ EntriesOf(name) # {}) =>
                  \A g \in EntriesOf(name) : ret.value = TitleCase(synonyms[g].clean)
            /\ (\A token \in Tokens(name) : EntriesOf(token) = {}) =>
                  ret.value = TitleCase(name)

C15_Witness ==
    /\ ret.op = "run"
    /\ ret.args = <<"O", "h", " ">>
    /\ ret.value = <<"O", "v", "e", "r", "h", "e", "a", "d", " ", "P", "r", "e", "s", "s">>

\* a synonym string occurs twice in the configuration, in one entry or in two
RepeatedSynonym(table) ==
    \E g, h \in 1..Len(table) :
        \E k \in 1..Len(table[g].synonyms), l \in 1..Len(table[h].synonyms) :
            /\ <<g, k>> # <<h, l>>
            /\ table[g].synonyms[k] = table[h].synonyms[l]

\* a clean value occurs in two entries
RepeatedClean(table) ==
    \E g, h \in 1..Len(table) : g # h /\ table[g].clean = table[h].clean

\* C16: the configuration check fails exactly when a synonym string occurs twice (in one
\* entry or in two) or a clean value repeats; the constructor runs it, so no StandardizeName
\* exists with such a configuration.
C16_ConfigurationCheck ==
    /\ ret.op = "_check_synonym_configuration" =>
          /\ ret.raised =
                IF RepeatedSynonym(ret.args) \/ RepeatedClean(ret.args)
                THEN "AssertionError" ELSE NoError
          /\ StandardizeName(ret.args).raised = ret.raised
          /\ ret.raised # NoError => StandardizeName(ret.args).value = None
    /\ current.cls = "StandardizeName" =>
          ~(RepeatedSynonym(current.synonyms) \/ RepeatedClean(current.synonyms))

C16_Witness ==
    /\ ret.op = "_check_synonym_configuration"
    /\ ret.args = <<Synonym(<<"a">>, <<<<"1">>>>), Synonym(<<"b">>, <<<<"1">>>>)>>
    /\ ret.raised = "AssertionError"

\* what one token becomes: the clean phrase of the entry that lists it, or itself
Substituted(token) ==
    IF EntriesOf(token) = {} THEN token
    ELSE synonyms[CHOOSE g \in EntriesOf(token) : TRUE].clean

\* C26: run substitutes each token by itself: a token equal, ignoring case, to a synonym
\* becomes one copy of the entry's clean phrase, any other token stays, the order is kept,
\* whatever the other tokens are; "Bench press" becomes "Bench Press Press".
C26_TokensSubstitutedIndependently ==
    ret.op = "run" =>
        LET tokens == split_space(Trim(ret.args), 1, <<>>, <<>>)
        IN  ret.value = TitleCase(join([i \in 1..Len(tokens) |-> Substituted(tokens[i])]))

C26_Witness ==
    /\ ret.op = "run"
    /\ ret.args = <<"B", "e", "n", "c", "h", " ", "p", "r", "e", "s", "s">>
    /\ ret.value = <<"B", "e", "n", "c", "h", " ", "P", "r", "e", "s", "s", " ", "P", "r", "e", "s", "s">>

\* C27: the result of run has no space at its start or end and never two spaces in a row,
\* also for names with several spaces between words.
C27_SingleSpaces ==
    ret.op = "run" =>
        /\ ret.value # <<>> => (Head(ret.value) # " " /\ ret.value[Len(ret.value)] # " ")
        /\ \A i \in 1..(Len(ret.value) - 1) : ~(ret.value[i] = " " /\ ret.value[i + 1] = " ")

\* the configuration without the synonyms that contain a space
HasSpace(text) == \E i \in 1..Len(text) : text[i] = " "

OneWordSynonyms(table) ==
    [g \in 1..Len(table) |->
        Synonym(table[g].clean,
                SelectSeq(table[g].synonyms, LAMBDA synonym : ~HasSpace(synonym)))]

\* the synonyms of the configuration that contain a space
MultiWordSynonyms ==
    {name \in SynonymNames : HasSpace(name)}

\* C28: a synonym that contains a space never matches: run returns what it returns under
\* the configuration without such synonyms, and a name that is exactly such a synonym comes
\* back as itself in title case, not as the entry's clean phrase.
C28_MultiWordSynonymNeverMatches ==
    ret.op = "run" =>
        /\ ret.value = run(StandardizeNameValue(OneWordSynonyms(synonyms)), ret.args)
        /\ \A synonym \in MultiWordSynonyms :
              SameIgnoringCase(Trim(ret.args), synonym) => ret.value = TitleCase(synonym)

C28_Witness ==
    /\ ret.op = "run"
    /\ ret.args = <<"l", "a", "t", " ", "p", "u", "l", "l", " ", "d", "o", "w", "n">>
    /\ ret.value = <<"L", "a", "t", " ", "P", "u", "l", "l", " ", "D", "o", "w", "n">>

-----------------------------------------------------------------------------
\* parser/serializer.py and data_access.py: the serializers

\* datetime: what strftime('%Y%m%d_%H%M%S') and isoformat() give for it
Datetime(ymd_hms, iso) == [cls |-> "datetime", ymd_hms |-> ymd_hms, iso |-> iso]

\* f"w_{timestamp.strftime('%Y%m%d_%H%M%S')}"
workout_id(timestamp) == <<"w_", timestamp.ymd_hms>>

\* the dict appended to sets for the set numbered idx
SetEntry(idx, repetitions, amount, unit) ==
    [cls |-> "dict", setNumber |-> idx, repetitions |-> repetitions,
     weight |-> [cls |-> "dict", amount |-> amount, unit |-> unit]]

\* set_["repetitions"], set_["weight"]["amount"], set_["weight"]["unit"]: only a dict can be
\* subscripted
Subscriptable(set_) == set_.cls = "dict" /\ set_.weight.cls = "dict"

\* the inner loop: for idx, set_ in enumerate(exercise.sets_, start=1)
serialize_sets(exercise) ==
    [idx \in 1..Len(exercise.sets_) |->
        SetEntry(idx, exercise.sets_[idx].repetitions, exercise.sets_[idx].weight.amount,
                 exercise.sets_[idx].weight.unit)]

\* serialize_to_set_centric(exercises, timestamp); now is what datetime.now(timezone.utc)
\* returns
serialize_to_set_centric(exercises, timestamp, now) ==
    LET stamp == IF timestamp = None THEN now ELSE timestamp
    IN  IF \E e \in 1..Len(exercises) :
               \E i \in 1..Len(exercises[e].sets_) : ~Subscriptable(exercises[e].sets_[i])
        THEN [raised |-> "TypeError", value |-> None]
        ELSE [raised |-> NoError,
              value |->
                 [cls |-> "dict",
                  workout_id |-> workout_id(stamp),
                  type |-> "set-centric",
                  date |-> stamp.iso,
                  location |-> "",
                  notes |-> "",
                  statistics |-> EmptyDict,
                  exercises |->
                     [e \in 1..Len(exercises) |->
                         [cls |-> "dict", name |-> exercises[e].name, equipment |-> "other",
                          sets |-> serialize_sets(exercises[e])]]]]

ParsedWorkoutSession(date, parsed, notes) ==
    [cls |-> "dict", date |-> date, parsed |-> parsed, notes |-> notes]

\* the three nested loops of to_tsv_rows: the flattened exercises with their session's date,
\* in the order the loops reach them
RECURSIVE flattened_of_exercises(_, _, _)
flattened_of_exercises(date, parsed, e) ==
    IF e > Len(parsed) THEN <<>>
    ELSE LET groups == flatten(parsed[e])
         IN  [g \in 1..Len(groups) |-> [date |-> date, flattened_ex |-> groups[g]]]
             \o flattened_of_exercises(date, parsed, e + 1)

RECURSIVE flattened_of_sessions(_, _)
flattened_of_sessions(sessions, k) ==
    IF k > Len(sessions) THEN <<>>
    ELSE flattened_of_exercises(sessions[k].date, sessions[k].parsed, 1)
         \o flattened_of_sessions(sessions, k + 1)

RECURSIVE sum(_)
sum(values) == IF values = <<>> THEN 0 ELSE Head(values) + sum(Tail(values))

\* binary floating point: the (amount, n) for which the sum of n floats `amount` divided by
\* n is not `amount`, for the amounts of the model and up to 7 sets;
\* (0.1 + 0.1 + 0.1) / 3 is 0.10000000000000002
RoundedMeans == {<<1, 3>>, <<1, 6>>, <<1, 7>>}

\* weights[0] == (sum(weights) / len(weights)), a comparison of floats
first_is_mean(weights) ==
    IF \A i \in 1..Len(weights) : weights[i] = weights[1]
    THEN <<weights[1], Len(weights)>> \notin RoundedMeans
    ELSE weights[1] * Len(weights) = sum(weights)

\* "{:d}".format(n)
format_d(n) == Numeral(n)

\* "{:.1f}".format(amount) of an amount with one decimal
format_1f(amount) == Numeral(amount \div 10) \o <<".">> \o Numeral(amount % 10)

\* text.replace('.', ',')
replace(text) == [i \in 1..Len(text) |-> IF text[i] = "." THEN "," ELSE text[i]]

\* the row of one flattened exercise
tsv_row(date, flattened_ex) ==
    LET repetitions == [i \in 1..Len(flattened_ex.sets_) |-> flattened_ex.sets_[i].repetitions]
    IN  <<date,
          flattened_ex.name,
          format_d(Len(repetitions)),
          format_d(sum(repetitions) \div Len(repetitions)),
          replace(format_1f(flattened_ex.sets_[1].weight.amount))>>

RECURSIVE tsv_rows_from(_, _, _)
tsv_rows_from(flattened, i, rows) ==
    IF i > Len(flattened) THEN [raised |-> NoError, value |-> rows]
    ELSE LET flattened_ex == flattened[i].flattened_ex
             weights == [j \in 1..Len(flattened_ex.sets_) |->
                            flattened_ex.sets_[j].weight.amount]
         IN  IF ~first_is_mean(weights)
             THEN [raised |-> "AssertionError", value |-> None]
             ELSE tsv_rows_from(flattened, i + 1,
                                Append(rows, tsv_row(flattened[i].date, flattened_ex)))

\* DataSerializer.to_tsv_rows
to_tsv_rows(sessions) ==
    IF \E k \in 1..Len(sessions) : \E e \in 1..Len(sessions[k].parsed) :
           \E i \in 1..Len(sessions[k].parsed[e].sets_) :
               sessions[k].parsed[e].sets_[i].cls # "Set_"
    THEN [raised |-> "AttributeError", value |-> None]
    ELSE tsv_rows_from(flattened_of_sessions(sessions, 1), 1,
                       <<<<"Date", "Exercise", "Sets", "Avg Reps", "Weight">>>>)

-----------------------------------------------------------------------------
\* data_access.py: SessionGrouper
\* (a line is a sequence of one-character strings, the empty line is <<>>; date is <<>> for
\* None and <<line>> once a date line was read)

\* a startswith that takes no line for a note
startswith_nothing(line) == FALSE

\* line.startswith('#')
startswith_hash(line) == line # <<>> /\ line[1] = "#"

\* "\n".join(lines)
RECURSIVE join_newline(_)
join_newline(lines) ==
    IF lines = <<>> THEN <<>>
    ELSE IF Len(lines) = 1 THEN lines[1]
    ELSE lines[1] \o <<"\n">> \o join_newline(Tail(lines))

RawWorkoutSession(date, payload, notes) ==
    [cls |-> "dict", date |-> date, payload |-> payload, notes |-> notes]

\* a _build_session that joins the payload lines as they are
build_session_as_is(payload, date, notes) ==
    RawWorkoutSession(date[1], join_newline(payload), join_newline(notes))

\* SessionGrouper._build_session: payload.append("") before the join
build_session(payload, date, notes) ==
    RawWorkoutSession(date[1], join_newline(Append(payload, <<>>)), join_newline(notes))

\* the loop of group_by_sessions and the statement after it
RECURSIVE group_lines(_, _, _, _, _, _)
group_lines(lines, i, sessions, current_payload, notes, date) ==
    IF i > Len(lines)
    THEN IF date # <<>> THEN Append(sessions, build_session(current_payload, date, notes))
         ELSE sessions
    ELSE LET line == lines[i]
         IN  IF line = <<>>
             THEN group_lines(lines, i + 1,
                              IF date # <<>>
                              THEN Append(sessions,
                                          build_session(current_payload, date, notes))
                              ELSE sessions,
                              <<>>, <<>>, <<>>)
             ELSE IF startswith_hash(line)
             THEN group_lines(lines, i + 1, sessions, current_payload, Append(notes, line),
                              date)
             ELSE IF date = <<>>
             THEN group_lines(lines, i + 1, sessions, current_payload, notes, <<line>>)
             ELSE group_lines(lines, i + 1, sessions, Append(current_payload, line), notes,
                              date)

\* SessionGrouper.group_by_sessions
group_by_sessions(lines) == group_lines(lines, 1, <<>>, <<>>, <<>>, <<>>)

\* splitter.py, parse_to_json.py: the groupers of the two older entry points

\* Splitter.build_job: current.append(""), then the assertion on date
Splitter_build_job(current_, date, notes) ==
    IF date = <<>> THEN [raised |-> "AssertionError", value |-> None]
    ELSE [raised |-> NoError,
          value |-> [cls |-> "dict", date |-> date[1],
                     payload |-> join_newline(Append(current_, <<>>)),
                     notes |-> join_newline(notes)]]

\* the loop of Splitter._group_exercises and the statements after it (idx counts from 1)
RECURSIVE Splitter_group_loop(_, _, _, _, _, _)
Splitter_group_loop(lines, idx, jobs, current_, notes, date) ==
    IF idx > Len(lines)
    THEN LET job == Splitter_build_job(current_, date, notes)
         IN  IF job.raised # NoError THEN job
             ELSE [raised |-> NoError, value |-> Append(jobs, job.value)]
    ELSE IF lines[idx] = <<>>
    THEN LET job == Splitter_build_job(current_, date, notes)
         IN  IF job.raised # NoError THEN job
             ELSE Splitter_group_loop(lines, idx + 1, Append(jobs, job.value), <<>>, <<>>, <<>>)
    ELSE IF startswith_hash(lines[idx])
    THEN Splitter_group_loop(lines, idx + 1, jobs, current_, Append(notes, lines[idx]), date)
    ELSE IF date = <<>>
    THEN Splitter_group_loop(lines, idx + 1, jobs, current_, notes, <<lines[idx]>>)
    ELSE Splitter_group_loop(lines, idx + 1, jobs, Append(current_, lines[idx]), notes, date)

\* Splitter._group_exercises
Splitter_group_exercises(lines) == Splitter_group_loop(lines, 1, <<>>, <<>>, <<>>, <<>>)

\* ParseToJson.build_job: current.append(""), then the assertion on date
ParseToJson_build_job(current_, date, notes) ==
    IF date = <<>> THEN [raised |-> "AssertionError", value |-> None]
    ELSE [raised |-> NoError,
          value |-> [cls |-> "dict", date |-> date[1],
                     payload |-> join_newline(Append(current_, <<>>)),
                     notes |-> join_newline(notes)]]

\* the loop of ParseToJson._group_exercises and the statements after it (idx counts from 1)
RECURSIVE ParseToJson_group_loop(_, _, _, _, _, _)
ParseToJson_group_loop(lines, idx, jobs, current_, notes, date) ==
    IF idx > Len(lines)
    THEN LET job == ParseToJson_build_job(current_, date, notes)
         IN  IF job.raised # NoError THEN job
             ELSE [raised |-> NoError, value |-> Append(jobs, job.value)]
    ELSE IF lines[idx] = <<>>
    THEN LET job == ParseToJson_build_job(current_, date, notes)
         IN  IF job.raised # NoError THEN job
             ELSE ParseToJson_group_loop(lines, idx + 1, Append(jobs, job.value), <<>>, <<>>, <<>>)
    ELSE IF startswith_hash(lines[idx])
    THEN ParseToJson_group_loop(lines, idx + 1, jobs, current_, Append(notes, lines[idx]), date)
    ELSE IF date = <<>>
    THEN ParseToJson_group_loop(lines, idx + 1, jobs, current_, notes, <<lines[idx]>>)
    ELSE ParseToJson_group_loop(lines, idx + 1, jobs, Append(current_, lines[idx]), notes, date)

\* ParseToJson._group_exercises
ParseToJson_group_exercises(lines) == ParseToJson_group_loop(lines, 1, <<>>, <<>>, <<>>, <<>>)

-----------------------------------------------------------------------------
\* Scenario 5 (SpecData): one call of a serializer on parsed sessions, or of
\* SessionGrouper.group_by_sessions on the lines of a file

\* most sessions of an input, most exercises of a session, most lines of a file
MaxSessions == 2
MaxExercises == 2
MaxLines == 5

\* the sets of the generated exercises: 0.1 kg and 75.0 kg
SerializedSets == {SetValue(r, WeightValue(a, "kg")) : r \in {1, 2}, a \in {1, 750}}

GeneratedExercises ==
    {Exercise("a", sets_).value : sets_ \in SeqsUpTo(SerializedSets, MaxSets)}

\* exercises of tests/test_cli.py, and one without sets
BenchPress ==
    Exercise("Bench press",
             <<SetValue(4, WeightValue(750, "kg"))>>
             \o Copies(3, SetValue(5, WeightValue(750, "kg")))).value
SquatFive == Exercise("Squat", Copies(5, SetValue(10, WeightValue(700, "kg")))).value
NoSets == Exercise("Plank", <<>>).value

SessionDates == <<"2025-01-01", "2025-01-02", "2025-01-03", "2025-01-04">>

\* the sessions in which each session holds some of the three exercises, and the sessions
\* of one generated exercise
DatedSessions(parsed) ==
    [k \in 1..Len(parsed) |-> ParsedWorkoutSession(SessionDates[k], parsed[k], "")]

SessionInputs ==
    {DatedSessions(parsed) :
        parsed \in SeqsUpTo(SeqsUpTo({BenchPress, SquatFive, NoSets}, MaxExercises),
                            MaxSessions)}
    \cup {DatedSessions(<<<<e>>>>) : e \in GeneratedExercises}

Timestamps ==
    {Datetime("20250101_000000", "2025-01-01T00:00:00+00:00"),
     Datetime("20240405_120000", "2024-04-05T12:00:00+00:00")}

LineValues == {<<>>, <<"#", "a">>, <<"#", "b">>, <<"x">>, <<"y">>}

PlannedDataCalls ==
    {[op |-> "serialize", args |-> sessions] : sessions \in SessionInputs}
    \cup {[op |-> "group_by_sessions", args |-> lines] : lines \in SeqsUpTo(LineValues, MaxLines)}

InitData ==
    /\ ex = None
    /\ ret = Call("start", None, NoError, None)
    /\ input \in PlannedDataCalls
    /\ pc = 1
    /\ current = EmptyDict
    /\ result = <<>>
    /\ error = NoError

\* DataSerializer.to_tsv_rows(sessions)
CallToTsvRows ==
    /\ ret.op = "start"
    /\ input.op = "serialize"
    /\ LET made == to_tsv_rows(input.args)
       IN  ret' = Call("to_tsv_rows", input.args, made.raised, made.value)
    /\ UNCHANGED <<ex, input, pc, current, result, error>>

\* serialize_to_set_centric(exercises, timestamp) on the exercises of one session, with a
\* timestamp or with None
CallSerializeToSetCentric ==
    /\ ret.op = "start"
    /\ input.op = "serialize"
    /\ \E k \in 1..Len(input.args), timestamp \in Timestamps \cup {None}, now \in Timestamps :
          LET made == serialize_to_set_centric(input.args[k].parsed, timestamp, now)
          IN  ret' = Call("serialize_to_set_centric", input.args[k].parsed, made.raised,
                          made.value)
    /\ UNCHANGED <<ex, input, pc, current, result, error>>

\* SessionGrouper.group_by_sessions(lines)
CallGroupBySessions ==
    /\ ret.op = "start"
    /\ input.op = "group_by_sessions"
    /\ ret' = Call("group_by_sessions", input.args, NoError, group_by_sessions(input.args))
    /\ UNCHANGED <<ex, input, pc, current, result, error>>

\* Splitter._group_exercises(lines)
CallSplitterGroupExercises ==
    /\ ret.op = "start"
    /\ input.op = "group_by_sessions"
    /\ LET made == Splitter_group_exercises(input.args)
       IN  ret' = Call("Splitter._group_exercises", input.args, made.raised, made.value)
    /\ UNCHANGED <<ex, input, pc, current, result, error>>

\* ParseToJson._group_exercises(lines)
CallParseToJsonGroupExercises ==
    /\ ret.op = "start"
    /\ input.op = "group_by_sessions"
    /\ LET made == ParseToJson_group_exercises(input.args)
       IN  ret' = Call("ParseToJson._group_exercises", input.args, made.raised, made.value)
    /\ UNCHANGED <<ex, input, pc, current, result, error>>

NextData ==
    \/ CallToTsvRows
    \/ CallSerializeToSetCentric
    \/ CallGroupBySessions
    \/ CallSplitterGroupExercises
    \/ CallParseToJsonGroupExercises

SpecData == InitData /\ [][NextData]_vars

-----------------------------------------------------------------------------
\* Properties of the serializers and of the grouping

RECURSIVE Concat(_)
Concat(seqs) == IF seqs = <<>> THEN <<>> ELSE Head(seqs) \o Concat(Tail(seqs))

\* the elements of seq at the indexes of I, in increasing order of index
Pick(seq, I) ==
    [k \in 1..Cardinality(I) |->
        seq[CHOOSE i \in I : Cardinality({j \in I : j < i}) = k - 1]]

\* where the runs of equal (weight, repetitions) start, and where the run that starts at a
\* ends
RunStarts(sets_) == {i \in 1..Len(sets_) : i = 1 \/ ~SameKind(sets_[i - 1], sets_[i])}
RunEnd(sets_, a) ==
    CHOOSE b \in a..Len(sets_) :
        /\ \A i \in a..b : SameKind(sets_[a], sets_[i])
        /\ b = Len(sets_) \/ ~SameKind(sets_[a], sets_[b + 1])

\* an amount with one decimal and a comma
OneDecimal(amount) == Numeral(amount \div 10) \o <<",">> \o Numeral(amount % 10)

\* one row per run of the exercise
RowsOfExercise(date, exercise) ==
    LET sets_ == exercise.sets_
        starts == Pick([i \in 1..Len(sets_) |-> i], RunStarts(sets_))
    IN  [k \in 1..Len(starts) |->
            <<date, exercise.name,
              Numeral(RunEnd(sets_, starts[k]) - starts[k] + 1),
              Numeral(sets_[starts[k]].repetitions),
              OneDecimal(sets_[starts[k]].weight.amount)>>]

RowsOfSession(session) ==
    Concat([e \in 1..Len(session.parsed) |-> RowsOfExercise(session.date, session.parsed[e])])

\* C17: to_tsv_rows returns the header row and then, session by session and exercise by
\* exercise, one row of five columns per flatten run: date, name, run length, the run's
\* repetitions, the run's weight with one decimal and a comma; an exercise without sets
\* gives no row.
C17_TsvRowsPerRun ==
    ret.op = "to_tsv_rows" =>
        /\ ret.raised = NoError
        /\ ret.value =
              <<<<"Date", "Exercise", "Sets", "Avg Reps", "Weight">>>>
              \o Concat([k \in 1..Len(ret.args) |-> RowsOfSession(ret.args[k])])

\* C18: serialize_to_set_centric keeps the exercises in input order and, for Exercises made
\* of Set values, numbers the sets of each exercise 1, 2, ..., n in order, with repetitions,
\* amount and unit copied.
C18_SetsNumberedPerExercise ==
    (/\ ret.op = "serialize_to_set_centric"
     /\ \A e \in 1..Len(ret.args) :
           \A i \in 1..Len(ret.args[e].sets_) : ret.args[e].sets_[i].cls = "Set_") =>
        /\ ret.raised = NoError
        /\ Len(ret.value.exercises) = Len(ret.args)
        /\ \A e \in 1..Len(ret.args) :
              /\ ret.value.exercises[e].name = ret.args[e].name
              /\ ret.value.exercises[e].sets =
                    [i \in 1..Len(ret.args[e].sets_) |->
                        SetEntry(i, ret.args[e].sets_[i].repetitions,
                                 ret.args[e].sets_[i].weight.amount,
                                 ret.args[e].sets_[i].weight.unit)]

IsNote(line) == line # <<>> /\ Head(line) = "#"

\* the blocks of the file: the maximal stretches a..b of lines without an empty line
BlocksOf(lines) ==
    {p \in (1..Len(lines)) \X (1..Len(lines)) :
        /\ p[1] <= p[2]
        /\ \A i \in p[1]..p[2] : lines[i] # <<>>
        /\ p[1] = 1 \/ lines[p[1] - 1] = <<>>
        /\ p[2] = Len(lines) \/ lines[p[2] + 1] = <<>>}

\* the blocks with a line that is not a note, by the index of their date line
DateLines(lines) ==
    {d \in 1..Len(lines) :
        \E p \in BlocksOf(lines) :
            /\ d \in p[1]..p[2]
            /\ ~IsNote(lines[d])
            /\ \A i \in p[1]..(d - 1) : IsNote(lines[i])}

BlockOf(lines, d) == CHOOSE p \in BlocksOf(lines) : d \in p[1]..p[2]

RECURSIVE Terminated(_)
Terminated(lines) ==
    IF lines = <<>> THEN <<>> ELSE Head(lines) \o <<"\n">> \o Terminated(Tail(lines))

\* the lines one per line, without the newline after the last
Separated(lines) ==
    IF lines = <<>> THEN <<>>
    ELSE SubSeq(Terminated(lines), 1, Len(Terminated(lines)) - 1)

\* the session of the block whose date line is line d
SessionOfBlock(lines, d) ==
    LET p == BlockOf(lines, d)
    IN  [cls |-> "dict",
         date |-> lines[d],
         notes |-> Separated(Pick(lines, {i \in p[1]..p[2] : IsNote(lines[i])})),
         payload |->
            Terminated(Pick(lines, {i \in p[1]..p[2] : i # d /\ ~IsNote(lines[i])}))]

\* C19: group_by_sessions returns, in order, one session per block (between empty lines) that
\* has a line not starting with '#': the date is the first such line, the notes are the
\* block's '#' lines in order, the payload the other lines, each ended by a newline; a block
\* without a date line gives no session.
C19_OneSessionPerDatedBlock ==
    ret.op = "group_by_sessions" =>
        LET lines == ret.args
            dates == Pick([i \in 1..Len(lines) |-> i], DateLines(lines))
        IN  /\ ret.raised = NoError
            /\ ret.value = [k \in 1..Len(dates) |-> SessionOfBlock(lines, dates[k])]

C19_Witness ==
    /\ ret.op = "group_by_sessions"
    /\ ret.args = <<<<"#", "a">>, <<"x">>, <<"y">>, <<>>, <<"#", "b">>>>
    /\ ret.value = <<RawWorkoutSession(<<"x">>, <<"y", "\n">>, <<"#", "a">>)>>

\* every Exercise of the sessions holds valid Set values of one unit
ValidExercises(sessions) ==
    \A k \in 1..Len(sessions) : \A e \in 1..Len(sessions[k].parsed) :
        LET sets_ == sessions[k].parsed[e].sets_
        IN  /\ \A i \in 1..Len(sets_) : sets_[i].cls = "Set_" /\ IsValidSet(sets_[i])
            /\ SingleUnit(sets_)

\* C29: to_tsv_rows never fails on sessions of valid Exercises: the assertion that the first
\* weight of a flatten run is the mean of the run's weights holds for every run, and the
\* average of the repetitions never divides by zero.
C29_TsvRowsNeverFail ==
    (ret.op = "to_tsv_rows" /\ ValidExercises(ret.args)) => ret.raised = NoError

\* the file is a sequence of blocks, one empty line between two blocks and none before the
\* first or after the last, and every block has a date line
EveryBlockDated(lines) ==
    Cardinality(DateLines(lines)) = Cardinality({i \in 1..Len(lines) : lines[i] = <<>>}) + 1

\* C30: the groupers of Splitter and ParseToJson fail their assertion exactly on a file with
\* a block without a date line (a trailing empty line, two empty lines in a row and an empty
\* file are such blocks); on every other file they return what group_by_sessions returns:
\* the same sessions with the same date, payload and notes.
C30_LegacyGroupersAgree ==
    ret.op \in {"Splitter._group_exercises", "ParseToJson._group_exercises"} =>
        /\ ret.raised = IF EveryBlockDated(ret.args) THEN NoError ELSE "AssertionError"
        /\ ret.raised = NoError => ret.value = group_by_sessions(ret.args)

\* two dated blocks, the first with a note and a payload line
C30_Witness ==
    /\ ret.op = "Splitter._group_exercises"
    /\ ret.args = <<<<"#", "a">>, <<"x">>, <<"y">>, <<>>, <<"y">>>>
    /\ ret.raised = NoError
    /\ ret.value = <<RawWorkoutSession(<<"x">>, <<"y", "\n">>, <<"#", "a">>),
                     RawWorkoutSession(<<"y">>, <<>>, <<>>)>>

-----------------------------------------------------------------------------
\* data_access.py, splitter.py, parse_to_json.py: the entry points of the pipeline

\* StandardizeName(), the standardizer every entry point creates
DefaultStandardizer == StandardizeName(synonyms).value

\* a renaming that runs the standardizer on its own result
standardize_names_twice(standardizer, exercises) ==
    [e \in 1..Len(exercises) |->
        [exercises[e] EXCEPT !.name = run(standardizer, run(standardizer, @))]]

\* ExerciseParser._standardize_names and DataAccess._standardize_names:
\* exercise.name = self.standardizer.run(exercise.name) for every exercise, in place
standardize_names(standardizer, exercises) ==
    [e \in 1..Len(exercises) |-> [exercises[e] EXCEPT !.name = run(standardizer, @)]]

\* Splitter._rename_exercises and ParseToJson._rename_exercises
rename_exercises(parsing2s) ==
    LET renamer == DefaultStandardizer
    IN  [k \in 1..Len(parsing2s) |->
            [parsing2s[k] EXCEPT !.parsed =
                [e \in 1..Len(@) |-> [@[e] EXCEPT !.name = run(renamer, @)]]]]

\* job_tmp of _parse_exercises: a copy of the job with the key 'parsed' added
Parsing2(job, parsed) ==
    [cls |-> "dict", date |-> job.date, payload |-> job.payload, notes |-> job.notes,
     parsed |-> parsed]

-----------------------------------------------------------------------------
\* Scenario 6 (SpecPipeline): one call of an entry point on a file whose lines have been
\* read and grouped into sessions. The payload of a session is held as its parse tree; the
\* visitor steps walk the tree of the session being parsed. ex holds the entry point, the
\* raw sessions, the sessions parsed so far and the Exercise lists as the parser returned
\* them.

Pipeline(entry, raw) ==
    [cls |-> "Pipeline", entry |-> entry, raw |-> raw, parsed |-> <<>>, before |-> <<>>]

PipelineNames ==
    {<<"b", "e", "n", "c", "h">>, <<"B", "e", "n", "c", "h", " ", "p", "r", "e", "s", "s">>, <<"S", "q", "u", "a", "t">>, <<"o", "h">>}

\* blocks that emit no set, and blocks of parser/test_parser.py
SetlessBlocks ==
    {Block(name, <<PrefixItem(60, TRUE)>>) : name \in PipelineNames}
    \cup {Block(<<"o", "h">>, <<SingleItem(12)>>)}

PipelineTrees ==
    {<<block>> : block \in SetlessBlocks}
    \cup {<<Block(<<"b", "e", "n", "c", "h">>, <<PrefixItem(60, TRUE)>>), Block(<<"B", "e", "n", "c", "h", " ", "p", "r", "e", "s", "s">>, <<SingleItem(12)>>)>>,
          <<Block(<<"S", "q", "u", "a", "t">>, SquatFixedThenPrefix.items)>>,
          <<Block(<<"B", "e", "n", "c", "h", " ", "p", "r", "e", "s", "s">>, <<PrefixItem(10, TRUE), SingleItem(4), PairItem(4, 5)>>)>>,
          <<Block(<<"o", "h">>, OverheadTriple.items), Block(<<"b", "e", "n", "c", "h">>, DeadliftWrongSuffix.items)>>,
          <<Block(<<"b", "e", "n", "c", "h">>, DeadliftWrongSuffix.items)>>}

RawSessions ==
    {[k \in 1..Len(trees) |-> RawWorkoutSession(SessionDates[k], trees[k], <<>>)] :
        trees \in SeqsUpTo(PipelineTrees, MaxSessions) \ {<<>>}}

\* Exercises of Set values, for the renaming called on its own
PipelineExercises ==
    {ExerciseValue(name, sets_) :
        name \in PipelineNames, sets_ \in {<<>>, BenchPress.sets_, SquatFive.sets_}}

InitPipeline ==
    /\ ex \in {Pipeline("DataAccess.parse_single_file", raw) :
                  raw \in {r \in RawSessions : Len(r) = 1}}
              \cup {Pipeline(entry, raw) :
                       entry \in {"DataAccess.parse_multi_session_file", "Splitter.main",
                                  "ParseToJson.main"},
                       raw \in RawSessions}
              \cup {Pipeline("DataAccess._standardize_names", exercises) :
                       exercises \in SeqsUpTo(PipelineExercises, 2)}
    /\ input = IF ex.entry = "DataAccess._standardize_names" THEN <<>> ELSE ex.raw[1].payload
    /\ pc = IF ex.entry = "DataAccess._standardize_names" THEN 0 ELSE 1
    /\ ret = Call("start", None, NoError, None)
    /\ current = EmptyDict
    /\ result = <<>>
    /\ error = NoError

\* the parse of one session has returned its Exercises
SessionParsed(entries) ==
    /\ ex.cls = "Pipeline"
    /\ ex.entry \in entries
    /\ ret.op = "parse_sessions"
    /\ ret.raised = NoError

\* the next session's payload is parsed: lexer, parser and a new Formatter
ParseNext(k) ==
    /\ input' = ex.raw[k].payload
    /\ pc' = 1
    /\ current' = EmptyDict
    /\ result' = <<>>
    /\ error' = NoError
    /\ ret' = Call("start", None, NoError, None)

\* DataAccess.parse_single_file after DataParser.parse_file_filtered has returned
parse_single_file ==
    /\ SessionParsed({"DataAccess.parse_single_file"})
    /\ ret' = Call(ex.entry, <<ret.value>>, NoError,
                   standardize_names(DefaultStandardizer, ret.value))
    /\ ex' = [ex EXCEPT !.before = <<ret.value>>]
    /\ UNCHANGED <<input, pc, current, result, error>>

\* DataAccess.parse_multi_session_file: one turn of the loop of ExerciseParser.parse_sessions
\* after DataParser.parse_raw_text has returned, and the return after the last turn
parse_multi_session_file ==
    /\ SessionParsed({"DataAccess.parse_multi_session_file"})
    /\ LET k == Len(ex.parsed) + 1
           session == ex.raw[k]
           exercises == standardize_names(DefaultStandardizer, ret.value)
           parsed_sessions ==
               Append(ex.parsed, ParsedWorkoutSession(session.date, exercises, session.notes))
           before == Append(ex.before, ret.value)
       IN  /\ ex' = [ex EXCEPT !.parsed = parsed_sessions, !.before = before]
           /\ IF k < Len(ex.raw)
              THEN ParseNext(k + 1)
              ELSE /\ ret' = Call(ex.entry, before, NoError, parsed_sessions)
                   /\ UNCHANGED <<input, pc, current, result, error>>

\* Splitter.main and ParseToJson.main: one turn of the loop of _parse_exercises after _parse
\* has returned and, after the last turn, _rename_exercises and the return
legacy_main ==
    /\ SessionParsed({"Splitter.main", "ParseToJson.main"})
    /\ LET k == Len(ex.parsed) + 1
           jobs2 == Append(ex.parsed, Parsing2(ex.raw[k], ret.value))
           before == Append(ex.before, ret.value)
       IN  /\ ex' = [ex EXCEPT !.parsed = jobs2, !.before = before]
           /\ IF k < Len(ex.raw)
              THEN ParseNext(k + 1)
              ELSE /\ ret' = Call(ex.entry, before, NoError, rename_exercises(jobs2))
                   /\ UNCHANGED <<input, pc, current, result, error>>

\* the exception of a parse leaves the entry point
entry_point_raises ==
    /\ ex.cls = "Pipeline"
    /\ ret.op = "parse_sessions"
    /\ ret.raised # NoError
    /\ ret' = Call(ex.entry, ex.before, ret.raised, None)
    /\ UNCHANGED <<ex, input, pc, current, result, error>>

\* DataAccess()._standardize_names(exercises); the value is the list after the call
CallStandardizeNames ==
    /\ ex.cls = "Pipeline"
    /\ ex.entry = "DataAccess._standardize_names"
    /\ ret.op = "start"
    /\ ret' = Call(ex.entry, ex.raw, NoError, standardize_names(DefaultStandardizer, ex.raw))
    /\ UNCHANGED <<ex, input, pc, current, result, error>>

NextPipeline ==
    \/ visitExercise_enter
    \/ visitExercise_name
    \/ visitWeight
    \/ visitSet_enter
    \/ visitSet_exit
    \/ visitWhole_set_
    \/ visitGroup_of_rep_set
    \/ visitSingle_rep_set
    \/ visitSingle_rep_set2
    \/ visitErrorNode
    \/ visitExercise_exit
    \/ parse_sessions
    \/ parse_single_file
    \/ parse_multi_session_file
    \/ legacy_main
    \/ entry_point_raises
    \/ CallStandardizeNames

SpecPipeline == InitPipeline /\ [][NextPipeline]_vars

EntryPoints ==
    {"DataAccess.parse_single_file", "DataAccess.parse_multi_session_file", "Splitter.main",
     "ParseToJson.main"}

\* the Exercise lists an entry point returned, one per session
ReturnedLists ==
    IF ret.op = "DataAccess.parse_single_file" THEN <<ret.value>>
    ELSE [k \in 1..Len(ret.value) |-> ret.value[k].parsed]

\* the same Exercises, each with its name run through the standardizer once
RenamedOnce(after, before) ==
    /\ Len(after) = Len(before)
    /\ \A e \in 1..Len(after) :
          /\ after[e].name = run(DefaultStandardizer, before[e].name)
          /\ after[e].sets_ = before[e].sets_

\* C25: every Exercise an entry point of the pipeline returns has the name run gives for the
\* parsed name, run applied once and not twice, and the set sequence the parser gave it; the
\* renaming alone changes the names of its Exercises that way and nothing else.
C25_NamesStandardizedOnce ==
    /\ (ret.op \in EntryPoints /\ ret.raised = NoError) =>
          /\ Len(ReturnedLists) = Len(ex.raw)
          /\ \A k \in 1..Len(ReturnedLists) :
                /\ RenamedOnce(ReturnedLists[k], ret.args[k])
                /\ Len(ret.args[k]) = Len(ex.raw[k].payload)
                /\ \A e \in 1..Len(ret.args[k]) :
                      ret.args[k][e].name = ex.raw[k].payload[e].name
    /\ ret.op = "DataAccess._standardize_names" => RenamedOnce(ret.value, ret.args)

\* an entry point has returned an Exercise whose name a second run would change again
C25_Witness ==
    /\ ret.op \in EntryPoints
    /\ ret.raised = NoError
    /\ \E k \in 1..Len(ReturnedLists) : \E e \in 1..Len(ReturnedLists[k]) :
          /\ ReturnedLists[k][e].name = run(DefaultStandardizer, ret.args[k][e].name)
          /\ run(DefaultStandardizer, ReturnedLists[k][e].name) # ReturnedLists[k][e].name

====
